---- MODULE Spec2Model ----
(***************************************************************************)
(* Financial core of the Smart Village Management System:                  *)
(*   - the accounting ledger, backend/app/services/accounting_service.py   *)
(*     over the tables declared in backend/app/models/accounting.py;       *)
(*   - payment allocation, backend/app/services/payment_service.py and     *)
(*     invoice_service.py;                                                 *)
(*   - bank reconciliation, backend/app/services/reconciliation_service.py *)
(*     over backend/app/models/bank_statement.py.                          *)
(*                                                                         *)
(* Amounts are whole numbers of the smallest currency unit (0.01): every   *)
(* amount column is Numeric(x, 2).                                         *)
(* The database state below is the COMMITTED state; an operation that      *)
(* raises leaves whatever it had committed before the exception.           *)
(***************************************************************************)
EXTENDS Integers, Sequences, FiniteSets, TLC

VARIABLES
    periods,        \* accounting_periods rows
    entries,        \* journal_entries rows, with their journal_entry_lines
    gl,             \* general_ledger rows, keyed by <<account_id, period_id>>
    foreign_keys,   \* TRUE: the engine enforces FOREIGN KEY (PostgreSQL);
                    \* FALSE: it does not (SQLite without the pragma)
    accounts,       \* chart_of_accounts rows
    invoices,       \* invoices rows, in creation order
    payments,       \* payments rows, in creation order
    allocations,    \* payment_invoices rows, in creation order
    transactions,   \* bank_transactions rows of one statement
    payment_journal_entries,  \* payment_journal_entries rows (the bridge)
    last,           \* the last call of the sequential API and its outcome
    pc,             \* concurrent workers: position inside the call
    loc             \* concurrent workers: local variables of the call

\* the tables outside the ledger
subledgers == <<accounts, invoices, payments, allocations, transactions>>

\* the tables the accounting service leaves alone
others == <<subledgers, payment_journal_entries>>

\* the tables of the ledger
ledger == <<periods, entries, gl, foreign_keys, payment_journal_entries>>

vars == <<ledger, subledgers, last, pc, loc>>

(***************************************************************************)
(* Bounds                                                                  *)
(***************************************************************************)
MaxEntries == 2
MaxAmount == 1
MaxLines == 2
\* rows of the invoice, payment and allocation tables together
MaxRows == 5
\* bank transactions and payments of one statement under reconciliation
MaxStatementRows == 3

\* payments submitted for approval
MaxPending == 2

(***************************************************************************)
(* Chart of accounts                                                       *)
(***************************************************************************)
Bank == "1112-01"
Revenue == "4100-01"
Expense == "5320-05"
Ghost == "no-such-account"

ChartOfAccounts == {Bank, Revenue, Expense}

balance_type(a) == IF a = Revenue THEN "CREDIT" ELSE "DEBIT"

(***************************************************************************)
(* datetime                                                                *)
(***************************************************************************)
Dt(y, m, d, h) == [year |-> y, month |-> m, day |-> d, hour |-> h]

DtKey(t) == ((t.year * 13 + t.month) * 32 + t.day) * 24 + t.hour

IsLeap(y) == (y % 4 = 0 /\ y % 100 # 0) \/ y % 400 = 0

DaysInMonth(y, m) ==
    IF m = 2 THEN (IF IsLeap(y) THEN 29 ELSE 28)
    ELSE IF m \in {4, 6, 9, 11} THEN 30 ELSE 31

\* datetime(y, m, 1) - timedelta(days=1): the day before the first, at 00:00
DayBeforeFirst(y, m) ==
    IF m = 1 THEN Dt(y - 1, 12, 31, 0)
    ELSE Dt(y, m - 1, DaysInMonth(y, m - 1), 0)

(***************************************************************************)
(* AccountingService.get_current_period / _create_monthly_period           *)
(***************************************************************************)
\* the AccountingPeriod row _create_monthly_period builds
MonthlyPeriod(transaction_date) ==
    LET year == transaction_date.year
        month == transaction_date.month
    IN [ id |-> <<year, month>>,
         period_name |-> <<year, month>>,
         fiscal_year |-> year,
         start_date |-> Dt(year, month, 1, 0),
         end_date |-> IF month = 12 THEN DayBeforeFirst(year + 1, 1)
                      ELSE DayBeforeFirst(year, month + 1),
         is_closed |-> FALSE ]

\* the filter of the query in get_current_period
PeriodCovers(p, transaction_date) ==
    /\ DtKey(p.start_date) <= DtKey(transaction_date)
    /\ DtKey(p.end_date) >= DtKey(transaction_date)
    /\ p.is_closed = FALSE

\* unique_period_name_year and check_period_dates, checked by the commit
PeriodConstraints(ps, new) ==
    /\ \A p \in ps : <<p.period_name, p.fiscal_year>> # <<new.period_name, new.fiscal_year>>
    /\ DtKey(new.start_date) < DtKey(new.end_date)

\* result of _create_monthly_period on the committed periods ps
create_monthly_period(ps, transaction_date) ==
    LET new == MonthlyPeriod(transaction_date)
    IN IF PeriodConstraints(ps, new)
       THEN [result |-> "ok", period |-> new, periods |-> ps \cup {new}]
       ELSE [result |-> "IntegrityError: period", period |-> new, periods |-> ps]

\* result of get_current_period on the committed periods ps
get_current_period(ps, transaction_date) ==
    LET found == {p \in ps : PeriodCovers(p, transaction_date)}
    IN IF found # {}
       THEN [result |-> "ok", period |-> CHOOSE p \in found : TRUE, periods |-> ps]
       ELSE create_monthly_period(ps, transaction_date)

(***************************************************************************)
(* Journal entry lines and their validation                                *)
(***************************************************************************)
Line(a, d, c) == [account_id |-> a, debit_amount |-> d, credit_amount |-> c]

RECURSIVE SumDebit(_)
SumDebit(lines) ==
    IF lines = <<>> THEN 0
    ELSE lines[1].debit_amount + SumDebit(Tail(lines))

RECURSIVE SumCredit(_)
SumCredit(lines) ==
    IF lines = <<>> THEN 0
    ELSE lines[1].credit_amount + SumCredit(Tail(lines))

\* total_debits and total_credits accumulated by the validation loop
total_debits(lines) == SumDebit(lines)

\* the slip of accumulating the debit column twice
total_credits_from_debit(lines) == SumDebit(lines)

total_credits(lines) == SumCredit(lines)

\* the same checks without the comparison of the totals
ServiceValidationNoBalance(lines) ==
    IF Len(lines) < 2 THEN "ValueError: at least 2 lines"
    ELSE IF \E i \in 1..Len(lines) :
                /\ \A j \in 1..(i - 1) :
                      ~(lines[j].debit_amount = 0 /\ lines[j].credit_amount = 0)
                /\ lines[i].debit_amount > 0 /\ lines[i].credit_amount > 0
         THEN "ValueError: both debit and credit"
    ELSE IF \E i \in 1..Len(lines) :
                lines[i].debit_amount = 0 /\ lines[i].credit_amount = 0
         THEN "ValueError: neither debit nor credit"
    ELSE "ok"

\* the checks of create_journal_entry before it touches the session
ServiceValidation(lines) ==
    IF Len(lines) < 2 THEN "ValueError: at least 2 lines"
    ELSE IF \E i \in 1..Len(lines) :
                /\ \A j \in 1..(i - 1) :
                      ~(lines[j].debit_amount = 0 /\ lines[j].credit_amount = 0)
                /\ lines[i].debit_amount > 0 /\ lines[i].credit_amount > 0
         THEN "ValueError: both debit and credit"
    ELSE IF \E i \in 1..Len(lines) :
                lines[i].debit_amount = 0 /\ lines[i].credit_amount = 0
         THEN "ValueError: neither debit nor credit"
    ELSE IF total_debits(lines) # total_credits(lines)
         THEN "ValueError: debits must equal credits"
    ELSE "ok"

\* the line table with its foreign key only
LineConstraintsForeignKeyOnly(l, fk) ==
    fk => l.account_id \in ChartOfAccounts

\* check_debit_or_credit, check_positive_amounts and the account foreign key
LineConstraints(l, fk) ==
    /\ \/ (l.debit_amount > 0 /\ l.credit_amount = 0)
       \/ (l.debit_amount = 0 /\ l.credit_amount > 0)
    /\ l.debit_amount >= 0 /\ l.credit_amount >= 0
    /\ fk => l.account_id \in ChartOfAccounts

\* check_balanced_entry and check_positive_totals of journal_entries
EntryConstraints(e) ==
    /\ e.total_debit = e.total_credit
    /\ e.total_debit >= 0 /\ e.total_credit >= 0

\* the unique index on journal_entries.entry_number
EntryNumberFree(ents, entry_number) ==
    \A i \in 1..Len(ents) : ents[i].entry_number # entry_number

\* outcome of the flush of the entry and the commit of its lines
InsertEntryResult(ents, e, fk) ==
    IF ~EntryNumberFree(ents, e.entry_number)
    THEN "IntegrityError: entry_number"
    ELSE IF ~EntryConstraints(e)
            \/ \E i \in 1..Len(e.lines) : ~LineConstraints(e.lines[i], fk)
    THEN "IntegrityError"
    ELSE "ok"

(***************************************************************************)
(* AccountingService.generate_entry_number                                 *)
(***************************************************************************)
\* JE-YYYY-MM-NNNN as <<year, month, sequence>>; below 10000 the descending
\* string order of the numbers is the descending order of the sequences
generate_entry_number(ents, transaction_date) ==
    LET year_month == <<transaction_date.year, transaction_date.month>>
        seqs == {ents[i].entry_number[3] : i \in
                    {j \in 1..Len(ents) :
                        <<ents[j].entry_number[1], ents[j].entry_number[2]>> = year_month}}
        next_seq == IF seqs # {}
                    THEN (CHOOSE s \in seqs : \A t \in seqs : t <= s) + 1
                    ELSE 1
    IN <<year_month[1], year_month[2], next_seq>>

(***************************************************************************)
(* AccountingService._update_general_ledger                                *)
(***************************************************************************)
\* the GeneralLedger row created when the query finds none
NewGlRecord ==
    [beginning_balance |-> 0, ending_balance |-> 0,
     debit_total |-> 0, credit_total |-> 0]

\* the ending balance computed as for a DEBIT account whatever the account
ending_balance_debit_only(account_id, rec) ==
    rec.beginning_balance + rec.debit_total - rec.credit_total

\* ending balance by the account's normal balance
ending_balance(account_id, rec) ==
    IF balance_type(account_id) = "DEBIT"
    THEN rec.beginning_balance + rec.debit_total - rec.credit_total
    ELSE rec.beginning_balance + rec.credit_total - rec.debit_total

\* the general ledger after one call that commits (the account exists)
update_general_ledger(g, account_id, period_id, debit_amount, credit_amount) ==
    LET key == <<account_id, period_id>>
        gl_record == IF key \in DOMAIN g THEN g[key] ELSE NewGlRecord
        totals == [gl_record EXCEPT !.debit_total = @ + debit_amount,
                                    !.credit_total = @ + credit_amount]
        updated == [totals EXCEPT !.ending_balance = ending_balance(account_id, totals)]
    IN [k \in DOMAIN g \cup {key} |-> IF k = key THEN updated ELSE g[k]]

(***************************************************************************)
(* AccountingService.post_journal_entry                                    *)
(***************************************************************************)
\* the loop over the lines from line k on: every call of
\* _update_general_ledger commits; a line whose account is not in the chart
\* raises (account is None) before its own commit
RECURSIVE PostLines(_, _, _, _)
PostLines(lines, period_id, g, k) ==
    IF k > Len(lines) THEN [failed_at |-> 0, gl |-> g]
    ELSE IF lines[k].account_id \notin ChartOfAccounts
         THEN [failed_at |-> k, gl |-> g]
    ELSE PostLines(lines, period_id,
                   update_general_ledger(g, lines[k].account_id, period_id,
                                         lines[k].debit_amount, lines[k].credit_amount),
                   k + 1)

\* a guard that lets any status through
can_post_any(status) == TRUE

\* the status guard of post_journal_entry
can_post(status) == status = "DRAFT"

\* committed state after post_journal_entry(entry_id)
post_journal_entry_result(ents, g, entry_id) ==
    IF entry_id \notin 1..Len(ents)
    THEN [result |-> "ValueError: not found", entries |-> ents, gl |-> g]
    ELSE IF ~can_post(ents[entry_id].status)
    THEN [result |-> "ValueError: only draft", entries |-> ents, gl |-> g]
    ELSE LET r == PostLines(ents[entry_id].lines, ents[entry_id].period_id, g, 1)
             posted == [ents EXCEPT ![entry_id].status = "POSTED"]
         IN IF r.failed_at = 0
            THEN [result |-> "ok", entries |-> posted, gl |-> r.gl]
            ELSE IF r.failed_at = 1
            THEN \* the status change was never committed
                 [result |-> "AttributeError", entries |-> ents, gl |-> g]
            ELSE \* the commits of the earlier lines carried the status with them
                 [result |-> "AttributeError", entries |-> posted, gl |-> r.gl]

(***************************************************************************)
(* AccountingService.create_journal_entry                                  *)
(***************************************************************************)
\* the claim-side reading of a well-formed entry (used only by properties)
WellFormed(lines) ==
    /\ Len(lines) >= 2
    /\ \A i \in 1..Len(lines) :
          \/ (lines[i].debit_amount > 0 /\ lines[i].credit_amount = 0)
          \/ (lines[i].debit_amount = 0 /\ lines[i].credit_amount > 0)
    /\ SumDebit(lines) = SumCredit(lines)
    /\ SumDebit(lines) > 0

Call(op, result, id, lines, auto_post) ==
    [op |-> op, result |-> result, id |-> id, auto_post |-> auto_post,
     balanced |-> SumDebit(lines) = SumCredit(lines),
     wellformed |-> WellFormed(lines)]

\* posting whatever the caller asked
should_post_always(auto_post) == TRUE

\* the auto_post switch at the end of create_journal_entry
should_post(auto_post) == auto_post

\* committed state after create_journal_entry(lines, transaction_date, auto_post)
create_journal_entry_result(ps, ents, g, fk, lines, transaction_date, auto_post) ==
    LET v == ServiceValidation(lines)
        pr == get_current_period(ps, transaction_date)
        entry == [entry_number |-> generate_entry_number(ents, transaction_date),
                  transaction_date |-> transaction_date,
                  total_debit |-> total_debits(lines),
                  total_credit |-> total_credits(lines),
                  status |-> "DRAFT",
                  period_id |-> pr.period.id,
                  lines |-> lines]
        created == Append(ents, entry)
        posting == post_journal_entry_result(created, g, Len(created))
    IN IF v # "ok"
       THEN [result |-> v, periods |-> ps, entries |-> ents, gl |-> g]
       ELSE IF pr.result # "ok"
       THEN [result |-> pr.result, periods |-> ps, entries |-> ents, gl |-> g]
       ELSE IF InsertEntryResult(ents, entry, fk) # "ok"
       THEN \* flush or commit fails; the period was committed before
            [result |-> InsertEntryResult(ents, entry, fk),
             periods |-> pr.periods, entries |-> ents, gl |-> g]
       ELSE IF should_post(auto_post)
       THEN [result |-> posting.result, periods |-> pr.periods,
             entries |-> posting.entries, gl |-> posting.gl]
       ELSE [result |-> "ok", periods |-> pr.periods, entries |-> created, gl |-> g]

(***************************************************************************)
(* Inputs                                                                  *)
(***************************************************************************)
Workers == {"w1", "w2"}

\* the two journals the application writes, for an amount a
PaymentLines(a) == <<Line(Bank, a, 0), Line(Revenue, 0, a)>>

SpendingLines(a) == <<Line(Expense, a, 0), Line(Bank, 0, a)>>

\* entries that name an account missing from the chart, as first or last line
GhostLines == {<<Line(Bank, 1, 0), Line(Ghost, 0, 1)>>,
               <<Line(Ghost, 1, 0), Line(Revenue, 0, 1)>>}

\* line lists of the shape the callers build
JournalLines ==
    UNION {{PaymentLines(a), SpendingLines(a)} : a \in 1..MaxAmount} \cup GhostLines

\* one line of any shape and sign: each side negative, zero or positive
AnyShapeLine == {Line(Bank, d, c) : d \in {0 - 1, 0, 1}, c \in {0 - 1, 0, 1}}

\* every list of 1..MaxLines lines of any shape
AnyShapeLines == UNION {[1..n -> AnyShapeLine] : n \in 1..MaxLines}

\* transaction dates of the ledger operations: inside their month
LedgerDates == {Dt(2025, 1, 15, 0), Dt(2025, 2, 15, 0)}

\* line lists the service must refuse, one for each way of being malformed,
\* and one that moves an amount within a single account
OddLines ==
    { <<Line(Bank, 1, 0)>>,
      <<Line(Bank, 1, 0), Line(Expense, 1, 0)>>,
      <<Line(Bank, 1, 1), Line(Revenue, 0, 1)>>,
      <<Line(Bank, 0, 0), Line(Revenue, 0, 1)>>,
      <<Line(Bank, 0 - 1, 0), Line(Revenue, 0, 0 - 1)>>,
      <<Line(Bank, 1, 0), Line(Bank, 0, 1)>> }

\* the calls of create_journal_entry: <<lines, transaction_date, auto_post>>
CreateCalls ==
    (JournalLines \X LedgerDates \X BOOLEAN)
    \cup (OddLines \X {Dt(2025, 1, 15, 0)} \X {TRUE})

\* calls with every small line list, for the validation
AnyShapeCalls == AnyShapeLines \X {Dt(2025, 1, 15, 0)} \X BOOLEAN

\* the chart_of_accounts rows of the three ledger accounts
Account(account_code, account_type, bt) ==
    [account_code |-> account_code, account_type |-> account_type,
     balance_type |-> bt, is_active |-> TRUE]

sample_accounts ==
    {Account(Bank, "ASSET", "DEBIT"), Account(Revenue, "REVENUE", "CREDIT"),
     Account(Expense, "EXPENSE", "DEBIT")}

(***************************************************************************)
(* Sequential specification: one call at a time                            *)
(***************************************************************************)
NoCall == Call("none", "ok", 0, <<>>, FALSE)

\* the local variables of a worker that has not called yet
NoLocal ==
    [lines |-> <<>>, transaction_date |-> Dt(0, 0, 0, 0), period_id |-> <<0, 0>>,
     entry_number |-> <<0, 0, 0>>, result |-> "none",
     entry_id |-> 0, k |-> 0, found |-> FALSE, gl_record |-> NewGlRecord,
     op |-> "none", payment_id |-> 0, created |-> <<>>, payment_status |-> "none",
     paid |-> {}]

EmptyLedger == [k \in {} |-> NewGlRecord]

Init ==
    /\ periods = {}
    /\ entries = <<>>
    /\ gl = EmptyLedger
    /\ foreign_keys \in BOOLEAN
    /\ accounts = sample_accounts
    /\ invoices = <<>>
    /\ payments = <<>>
    /\ allocations = <<>>
    /\ transactions = <<>>
    /\ payment_journal_entries = <<>>
    /\ last = NoCall
    /\ pc = [w \in Workers |-> "idle"]
    /\ loc = [w \in Workers |-> NoLocal]

CreateJournalEntry(calls) ==
    \E call \in calls :
        /\ Len(entries) < MaxEntries
        /\ LET lines == call[1]
               transaction_date == call[2]
               auto_post == call[3]
               r == create_journal_entry_result(periods, entries, gl, foreign_keys,
                                                lines, transaction_date, auto_post)
           IN /\ periods' = r.periods
              /\ entries' = r.entries
              /\ gl' = r.gl
              /\ last' = Call("create", r.result,
                              IF Len(r.entries) > Len(entries) THEN Len(r.entries) ELSE 0,
                              lines, auto_post)
        /\ UNCHANGED <<foreign_keys, others, pc, loc>>

create_journal_entry == CreateJournalEntry(CreateCalls)

post_journal_entry ==
    \E entry_id \in 1..(Len(entries) + 1) :
        /\ LET r == post_journal_entry_result(entries, gl, entry_id)
           IN /\ entries' = r.entries
              /\ gl' = r.gl
              /\ last' = Call("post", r.result, entry_id, <<>>, FALSE)
        /\ UNCHANGED <<periods, foreign_keys, others, pc, loc>>

Next == create_journal_entry \/ post_journal_entry

Spec == Init /\ [][Next]_vars

(***************************************************************************)
(* Validation specification: create_journal_entry on every small line list *)
(***************************************************************************)
create_journal_entry_any_shape == CreateJournalEntry(AnyShapeCalls)

ValidationNext == create_journal_entry_any_shape \/ post_journal_entry

ValidationSpec == Init /\ [][ValidationNext]_vars

(***************************************************************************)
(* Concurrent specification: each worker runs create_journal_entry in its  *)
(* own session; a step is one round trip to the database, which shows      *)
(* every statement the rows committed so far (READ COMMITTED).  The        *)
(* concurrent callers pass auto_post = False.                              *)
(***************************************************************************)
ConcurrentLines == {PaymentLines(1), SpendingLines(1), <<Line(Bank, 1, 0)>>}

InFlight == {w \in Workers : pc[w] # "idle"}

\* the call starts: the validation loop runs on the arguments alone
begin_create_journal_entry(w) ==
    /\ pc[w] = "idle"
    /\ Len(entries) + Cardinality(InFlight) < MaxEntries
    /\ \E lines \in ConcurrentLines, transaction_date \in LedgerDates :
          LET v == ServiceValidation(lines)
          IN /\ loc' = [loc EXCEPT ![w] = [NoLocal EXCEPT !.lines = lines,
                                              !.transaction_date = transaction_date,
                                              !.result = IF v = "ok" THEN "running" ELSE v]]
             /\ pc' = [pc EXCEPT ![w] = IF v = "ok" THEN "get_current_period" ELSE "idle"]
    /\ UNCHANGED <<periods, entries, gl, foreign_keys, others, last>>

\* the query of get_current_period
query_current_period(w) ==
    /\ pc[w] = "get_current_period"
    /\ LET found == {p \in periods : PeriodCovers(p, loc[w].transaction_date)}
       IN IF found # {}
          THEN /\ loc' = [loc EXCEPT ![w].period_id = (CHOOSE p \in found : TRUE).id]
               /\ pc' = [pc EXCEPT ![w] = "generate_entry_number"]
          ELSE /\ pc' = [pc EXCEPT ![w] = "create_monthly_period"]
               /\ UNCHANGED loc
    /\ UNCHANGED <<periods, entries, gl, foreign_keys, others, last>>

\* the insert and commit of _create_monthly_period
commit_monthly_period(w) ==
    /\ pc[w] = "create_monthly_period"
    /\ LET r == create_monthly_period(periods, loc[w].transaction_date)
       IN /\ periods' = r.periods
          /\ IF r.result = "ok"
             THEN /\ loc' = [loc EXCEPT ![w].period_id = r.period.id]
                  /\ pc' = [pc EXCEPT ![w] = "generate_entry_number"]
             ELSE /\ loc' = [loc EXCEPT ![w].result = r.result]
                  /\ pc' = [pc EXCEPT ![w] = "idle"]
    /\ UNCHANGED <<entries, gl, foreign_keys, others, last>>

\* the query of generate_entry_number
query_entry_number(w) ==
    /\ pc[w] = "generate_entry_number"
    /\ loc' = [loc EXCEPT ![w].entry_number =
                   generate_entry_number(entries, loc[w].transaction_date)]
    /\ pc' = [pc EXCEPT ![w] = "insert_entry"]
    /\ UNCHANGED <<periods, entries, gl, foreign_keys, others, last>>

\* the flush of the entry and the commit of entry and lines
commit_entry(w) ==
    /\ pc[w] = "insert_entry"
    /\ LET entry == [entry_number |-> loc[w].entry_number,
                     transaction_date |-> loc[w].transaction_date,
                     total_debit |-> total_debits(loc[w].lines),
                     total_credit |-> total_credits(loc[w].lines),
                     status |-> "DRAFT",
                     period_id |-> loc[w].period_id,
                     lines |-> loc[w].lines]
           r == InsertEntryResult(entries, entry, foreign_keys)
       IN /\ entries' = IF r = "ok" THEN Append(entries, entry) ELSE entries
          /\ loc' = [loc EXCEPT ![w].result = r]
          /\ pc' = [pc EXCEPT ![w] = "idle"]
    /\ UNCHANGED <<periods, gl, foreign_keys, others, last>>

ConcNext ==
    \E w \in Workers :
        \/ begin_create_journal_entry(w)
        \/ query_current_period(w)
        \/ commit_monthly_period(w)
        \/ query_entry_number(w)
        \/ commit_entry(w)

ConcSpec == Init /\ [][ConcNext]_vars

(***************************************************************************)
(* Posting specification: entries are created, and some posted, one call   *)
(* at a time; then each worker runs one post_journal_entry in its own      *)
(* session.  A step is one round trip to the database: the query of        *)
(* _update_general_ledger, then its commit.  The session does not          *)
(* autoflush, so the new status reaches the database with the first        *)
(* commit, and the UPDATE of a loaded row sets the columns whose value     *)
(* changed to the values the session computed from the row it loaded.      *)
(***************************************************************************)
PostingLines == UNION {{PaymentLines(a), SpendingLines(a)} : a \in 1..MaxAmount}

PostingCalls == PostingLines \X {Dt(2025, 1, 15, 0)} \X BOOLEAN

NoneBegun == \A w \in Workers : pc[w] = "idle"

create_journal_entry_before ==
    /\ NoneBegun
    /\ CreateJournalEntry(PostingCalls)

\* the entry query and the status check of post_journal_entry
begin_post_journal_entry(w) ==
    /\ pc[w] = "idle"
    /\ \E entry_id \in 1..Len(entries) :
          IF can_post(entries[entry_id].status)
          THEN /\ loc' = [loc EXCEPT ![w] =
                              [NoLocal EXCEPT !.entry_id = entry_id,
                                              !.lines = entries[entry_id].lines,
                                              !.period_id = entries[entry_id].period_id,
                                              !.k = 1,
                                              !.result = "running"]]
               /\ pc' = [pc EXCEPT ![w] = "query_gl_record"]
          ELSE /\ loc' = [loc EXCEPT ![w] =
                              [NoLocal EXCEPT !.entry_id = entry_id,
                                              !.result = "ValueError: only draft"]]
               /\ pc' = [pc EXCEPT ![w] = "returned"]
    /\ UNCHANGED <<periods, entries, gl, foreign_keys, others, last>>

\* the query for the row of line k
query_gl_record(w) ==
    /\ pc[w] = "query_gl_record"
    /\ LET key == <<loc[w].lines[loc[w].k].account_id, loc[w].period_id>>
       IN loc' = [loc EXCEPT ![w].found = key \in DOMAIN gl,
                             ![w].gl_record = IF key \in DOMAIN gl THEN gl[key]
                                              ELSE NewGlRecord]
    /\ pc' = [pc EXCEPT ![w] = "commit_gl_record"]
    /\ UNCHANGED <<periods, entries, gl, foreign_keys, others, last>>

\* the row the commit leaves: an INSERT of the session's row, or an UPDATE
\* of the columns the session changed
CommittedRow(g, key, loaded, computed, found) ==
    IF ~found THEN computed
    ELSE [c \in DOMAIN computed |->
             IF computed[c] # loaded[c] THEN computed[c] ELSE g[key][c]]

\* the totals and the ending balance the session computes from the row it
\* loaded, and the commit of _update_general_ledger; the commit after the
\* last line has nothing left to write
commit_gl_record(w) ==
    /\ pc[w] = "commit_gl_record"
    /\ LET line == loc[w].lines[loc[w].k]
           key == <<line.account_id, loc[w].period_id>>
           loaded == loc[w].gl_record
           computed == update_general_ledger([x \in {key} |-> loaded],
                                             line.account_id, loc[w].period_id,
                                             line.debit_amount, line.credit_amount)[key]
       IN IF ~loc[w].found /\ key \in DOMAIN gl
          THEN \* unique_account_period: the transaction is rolled back
               /\ loc' = [loc EXCEPT ![w].result = "IntegrityError: general_ledger"]
               /\ pc' = [pc EXCEPT ![w] = "returned"]
               /\ UNCHANGED <<entries, gl>>
          ELSE /\ gl' = [x \in DOMAIN gl \cup {key} |->
                            IF x = key
                            THEN CommittedRow(gl, key, loaded, computed, loc[w].found)
                            ELSE gl[x]]
               /\ entries' = [entries EXCEPT ![loc[w].entry_id].status = "POSTED"]
               /\ IF loc[w].k < Len(loc[w].lines)
                  THEN /\ loc' = [loc EXCEPT ![w].k = @ + 1]
                       /\ pc' = [pc EXCEPT ![w] = "query_gl_record"]
                  ELSE /\ loc' = [loc EXCEPT ![w].result = "ok"]
                       /\ pc' = [pc EXCEPT ![w] = "returned"]
    /\ UNCHANGED <<periods, foreign_keys, others, last>>

PostingNext ==
    \/ create_journal_entry_before
    \/ \E w \in Workers :
          \/ begin_post_journal_entry(w)
          \/ query_gl_record(w)
          \/ commit_gl_record(w)

PostingSpec == Init /\ [][PostingNext]_vars

(***************************************************************************)
(* Period specification: get_current_period on any date                    *)
(***************************************************************************)
\* first, middle and last day of a month, at midnight and during the day
DatesOfMonth(y, m) ==
    {Dt(y, m, d, h) : d \in {1, 15, DaysInMonth(y, m)}, h \in {0, 10}}

PeriodDates == UNION {DatesOfMonth(y, m) : y \in {2024, 2025}, m \in {1, 2, 12}}

PeriodCall(transaction_date, r) ==
    [op |-> "get_current_period", transaction_date |-> transaction_date,
     result |-> r.result, period |-> r.period]

resolve_period ==
    \E transaction_date \in PeriodDates :
        LET r == get_current_period(periods, transaction_date)
        IN /\ periods' = r.periods
           /\ last' = PeriodCall(transaction_date, r)
           /\ UNCHANGED <<entries, gl, foreign_keys, others, pc, loc>>

PeriodNext == resolve_period

PeriodSpec == Init /\ [][PeriodNext]_vars

(***************************************************************************)
(* ChartOfAccountsService.create_account                                   *)
(***************************************************************************)
\* the account codes the callers pass: one of the ledger and fresh ones
AccountCodes == {Bank, "1234-56", "2100-01", "3100-01"}

\* account type and normal balance, as the callers pair them
AccountKinds == {<<"ASSET", "DEBIT">>, <<"LIABILITY", "CREDIT">>, <<"EXPENSE", "DEBIT">>}

\* the query for an account with the code
existing_account(accs, account_code) == {a \in accs : a.account_code = account_code}

\* the unique index on account_code and the CHECK constraints of the table
AccountConstraints(accs, account) ==
    /\ existing_account(accs, account.account_code) = {}
    /\ account.account_type \in {"ASSET", "LIABILITY", "EQUITY", "REVENUE", "EXPENSE"}
    /\ account.balance_type \in {"DEBIT", "CREDIT"}

\* a create_account that overwrites the account that has the code
create_account_upsert(accs, account_code, account_type, bt) ==
    [result |-> "ok",
     accounts |-> (accs \ existing_account(accs, account_code))
                     \cup {Account(account_code, account_type, bt)},
     account |-> Account(account_code, account_type, bt)]

\* committed accounts after create_account
create_account_result(accs, account_code, account_type, bt) ==
    LET account == Account(account_code, account_type, bt)
    IN IF existing_account(accs, account_code) # {}
       THEN [result |-> "ValueError: already exists", accounts |-> accs, account |-> account]
       ELSE IF ~AccountConstraints(accs, account)
       THEN [result |-> "IntegrityError", accounts |-> accs, account |-> account]
       ELSE [result |-> "ok", accounts |-> accs \cup {account}, account |-> account]

AccountCall(account_code, r) ==
    [op |-> "create_account", account_code |-> account_code,
     result |-> r.result, account |-> r.account]

create_account ==
    \E account_code \in AccountCodes, kind \in AccountKinds :
        LET r == create_account_result(accounts, account_code, kind[1], kind[2])
        IN /\ accounts' = r.accounts
           /\ last' = AccountCall(account_code, r)
           /\ UNCHANGED <<ledger, invoices, payments, allocations, transactions, pc, loc>>

ChartNext == create_account

ChartSpec == Init /\ [][ChartNext]_vars

(***************************************************************************)
(* InvoiceService and PaymentService: payment allocation                   *)
(*                                                                         *)
(* Invoice.amount, Payment.amount and PaymentInvoice.amount are            *)
(* Numeric(12, 2) columns and load as Decimal; the services mix them with  *)
(* float.  The session does not autoflush, and an allocation is added with *)
(* its foreign keys only, so a collection of allocations the session has   *)
(* loaded does not show the allocation the call has just added.            *)
(***************************************************************************)
\* "outstanding <= 0.01", in units of 0.01
Tolerance == 1

Properties == {1}

\* amounts in units of 0.01: 0.01, 3000.00, 4000.00, 5000.00, ...
InvoiceAmounts == {300000, 400000}

PaymentAmounts == {1, 500000}

ManualAmounts == {0, 300000}

Min(a, b) == IF a <= b THEN a ELSE b

Max(a, b) == IF a >= b THEN a ELSE b

\* sum of the amounts of allocation rows
RECURSIVE SumAmounts(_)
SumAmounts(rows) ==
    IF rows = <<>> THEN 0 ELSE rows[1].amount + SumAmounts(Tail(rows))

\* Invoice.payment_allocations: the allocation rows of the invoice
payment_allocations(allocs, invoice_id) ==
    SelectSeq(allocs, LAMBDA r : r.invoice_id = invoice_id)

\* Payment.invoice_allocations: the allocation rows of the payment
invoice_allocations(allocs, payment_id) ==
    SelectSeq(allocs, LAMBDA r : r.payment_id = payment_id)

\* InvoiceService.calculate_outstanding_amount on the rows the session sees
calculate_outstanding_amount(invs, allocs, invoice_id) ==
    Max(0, invs[invoice_id].amount - SumAmounts(payment_allocations(allocs, invoice_id)))

\* PaymentService.get_unallocated_amount on the rows the session sees
get_unallocated_amount(pays, allocs, payment_id) ==
    Max(0, pays[payment_id].amount - SumAmounts(invoice_allocations(allocs, payment_id)))

\* the pending invoices of the property from row k on, oldest first
RECURSIVE PendingFrom(_, _, _)
PendingFrom(invs, property_id, k) ==
    IF k > Len(invs) THEN <<>>
    ELSE (IF invs[k].property_id = property_id /\ invs[k].status = "pending"
          THEN <<k>> ELSE <<>>)
         \o PendingFrom(invs, property_id, k + 1)

\* InvoiceService.get_pending_invoices_by_property
get_pending_invoices_by_property(invs, property_id) == PendingFrom(invs, property_id, 1)

\* the test of mark_invoice_as_paid_if_fully_allocated
fully_allocated(outstanding) == outstanding <= Tolerance

\* "remaining_amount -= allocation_amount": min() returned the Decimal
\* outstanding when it is the smaller, and float - Decimal raises TypeError
subtraction_raises(remaining_amount, outstanding) == outstanding < remaining_amount

\* the loop of allocate_payment_fifo over the pending invoices.  allocs are
\* the committed rows, added the rows the session holds unflushed; the
\* commit of update_invoice_status flushes them.
RECURSIVE fifo_loop(_, _, _, _, _, _)
fifo_loop(pending, payment_id, remaining_amount, invs, allocs, added) ==
    IF pending = <<>> \/ remaining_amount <= 0
    THEN [raised |-> FALSE, remaining_amount |-> remaining_amount,
          invoices |-> invs, allocations |-> allocs, added |-> added]
    ELSE LET invoice_id == Head(pending)
             outstanding == calculate_outstanding_amount(invs, allocs, invoice_id)
             allocation_amount == Min(remaining_amount, outstanding)
             payment_invoice == [payment_id |-> payment_id, invoice_id |-> invoice_id,
                                 amount |-> allocation_amount]
         IN IF outstanding <= 0
            THEN fifo_loop(Tail(pending), payment_id, remaining_amount, invs, allocs, added)
            ELSE IF subtraction_raises(remaining_amount, outstanding)
            THEN [raised |-> TRUE, remaining_amount |-> remaining_amount,
                  invoices |-> invs, allocations |-> allocs, added |-> <<>>]
            ELSE IF fully_allocated(outstanding)
            THEN fifo_loop(Tail(pending), payment_id, remaining_amount - allocation_amount,
                           [invs EXCEPT ![invoice_id].status = "paid"],
                           allocs \o added \o <<payment_invoice>>, <<>>)
            ELSE fifo_loop(Tail(pending), payment_id, remaining_amount - allocation_amount,
                           invs, allocs, Append(added, payment_invoice))

\* committed state after allocate_payment_fifo(payment_id)
allocate_payment_fifo_result(invs, pays, allocs, payment_id) ==
    IF payment_id \notin 1..Len(pays)
    THEN [result |-> "ValueError: not found", invoices |-> invs, payments |-> pays,
          allocations |-> allocs, created |-> <<>>]
    ELSE LET r == fifo_loop(get_pending_invoices_by_property(invs, pays[payment_id].property_id),
                            payment_id, pays[payment_id].amount, invs, allocs, <<>>)
             status == IF r.remaining_amount > 0 THEN "PARTIALLY_ALLOCATED"
                       ELSE "FULLY_ALLOCATED"
         IN IF r.raised
            THEN [result |-> "TypeError", invoices |-> r.invoices, payments |-> pays,
                  allocations |-> r.allocations, created |-> <<>>]
            ELSE [result |-> "ok", invoices |-> r.invoices,
                  payments |-> [pays EXCEPT ![payment_id].status = status],
                  allocations |-> r.allocations \o r.added,
                  created |-> SubSeq(r.allocations \o r.added, Len(allocs) + 1,
                                     Len(r.allocations \o r.added))]

\* the status _update_payment_status sets, from the unallocated amount the
\* session sees
update_payment_status(amount, unallocated) ==
    IF unallocated <= Tolerance THEN "FULLY_ALLOCATED"
    ELSE IF unallocated < amount THEN "PARTIALLY_ALLOCATED"
    ELSE "CONFIRMED"

\* a validation that checks the payment's side only
manual_allocation_error_payment_only(amount, payment_unallocated, invoice_outstanding) ==
    IF amount > payment_unallocated THEN "ValueError: exceeds unallocated"
    ELSE "ok"

\* the validation of create_manual_allocation
manual_allocation_error(amount, payment_unallocated, invoice_outstanding) ==
    IF amount > payment_unallocated THEN "ValueError: exceeds unallocated"
    ELSE IF amount > invoice_outstanding THEN "ValueError: exceeds outstanding"
    ELSE "ok"

\* committed state after create_manual_allocation(payment_id, invoice_id, amount)
create_manual_allocation_result(invs, pays, allocs, payment_id, invoice_id, amount) ==
    LET unchanged(result) ==
            [result |-> result, invoices |-> invs, payments |-> pays,
             allocations |-> allocs, created |-> <<>>]
    IN IF payment_id \notin 1..Len(pays) THEN unchanged("ValueError: payment not found")
       ELSE IF invoice_id \notin 1..Len(invs) THEN unchanged("ValueError: invoice not found")
       ELSE LET payment_unallocated == get_unallocated_amount(pays, allocs, payment_id)
                invoice_outstanding == calculate_outstanding_amount(invs, allocs, invoice_id)
                error == manual_allocation_error(amount, payment_unallocated, invoice_outstanding)
                payment_invoice == [payment_id |-> payment_id, invoice_id |-> invoice_id,
                                    amount |-> amount]
            IN IF error # "ok" THEN unchanged(error)
               ELSE [result |-> "ok",
                     invoices |-> IF fully_allocated(invoice_outstanding)
                                  THEN [invs EXCEPT ![invoice_id].status = "paid"]
                                  ELSE invs,
                     payments |-> [pays EXCEPT ![payment_id].status =
                                       update_payment_status(pays[payment_id].amount,
                                                             payment_unallocated)],
                     allocations |-> Append(allocs, payment_invoice),
                     created |-> <<payment_invoice>>]

\* PaymentService.get_unallocated_payments from row k on
RECURSIVE UnallocatedFrom(_, _, _, _)
UnallocatedFrom(pays, allocs, property_id, k) ==
    IF k > Len(pays) THEN <<>>
    ELSE (IF /\ pays[k].status \in {"CONFIRMED", "PARTIALLY_ALLOCATED"}
             /\ pays[k].property_id = property_id
             /\ get_unallocated_amount(pays, allocs, k) > 0
          THEN <<k>> ELSE <<>>)
         \o UnallocatedFrom(pays, allocs, property_id, k + 1)

get_unallocated_payments(pays, allocs, property_id) ==
    UnallocatedFrom(pays, allocs, property_id, 1)

\* the loop of process_bulk_fifo_allocation: every allocate_payment_fifo
\* commits, and one that raises ends the call
RECURSIVE bulk_loop(_, _, _, _)
bulk_loop(unallocated_payments, invs, pays, allocs) ==
    IF unallocated_payments = <<>>
    THEN [result |-> "ok", invoices |-> invs, payments |-> pays, allocations |-> allocs]
    ELSE LET r == allocate_payment_fifo_result(invs, pays, allocs, Head(unallocated_payments))
         IN IF r.result # "ok"
            THEN [result |-> r.result, invoices |-> r.invoices, payments |-> r.payments,
                  allocations |-> r.allocations]
            ELSE bulk_loop(Tail(unallocated_payments), r.invoices, r.payments, r.allocations)

\* committed state after process_bulk_fifo_allocation(property_id)
process_bulk_fifo_allocation_result(invs, pays, allocs, property_id) ==
    LET r == bulk_loop(get_unallocated_payments(pays, allocs, property_id), invs, pays, allocs)
    IN [result |-> r.result, invoices |-> r.invoices, payments |-> r.payments,
        allocations |-> r.allocations,
        created |-> SubSeq(r.allocations, Len(allocs) + 1, Len(r.allocations))]

\* committed state after create_payment: the payment is committed before
\* the allocation runs
create_payment_result(invs, pays, allocs, property_id, amount, auto_allocate) ==
    LET payment == [property_id |-> property_id, amount |-> amount, status |-> "CONFIRMED"]
        created == Append(pays, payment)
    IN IF auto_allocate
       THEN allocate_payment_fifo_result(invs, created, allocs, Len(created))
       ELSE [result |-> "ok", invoices |-> invs, payments |-> created,
             allocations |-> allocs, created |-> <<>>]

(***************************************************************************)
(* Allocation specification: one call at a time                            *)
(***************************************************************************)
AllocationCall(op, payment_id, invoice_id, amount, r) ==
    [op |-> op, result |-> r.result, payment_id |-> payment_id,
     invoice_id |-> invoice_id, amount |-> amount, created |-> r.created]

\* the effect of an allocation call on the tables
Allocate(op, payment_id, invoice_id, amount, r) ==
    /\ Len(r.invoices) + Len(r.payments) + Len(r.allocations) <= MaxRows
    /\ invoices' = r.invoices
    /\ payments' = r.payments
    /\ allocations' = r.allocations
    /\ last' = AllocationCall(op, payment_id, invoice_id, amount, r)
    /\ UNCHANGED <<ledger, accounts, transactions, pc, loc>>

create_invoice ==
    /\ Len(invoices) + Len(payments) + Len(allocations) < MaxRows
    /\ \E property_id \in Properties, amount \in InvoiceAmounts :
          /\ invoices' = Append(invoices, [property_id |-> property_id, amount |-> amount,
                                           status |-> "pending"])
          /\ last' = [op |-> "create_invoice", result |-> "ok", payment_id |-> 0,
                      invoice_id |-> Len(invoices) + 1, amount |-> amount, created |-> <<>>]
    /\ UNCHANGED <<ledger, accounts, payments, allocations, transactions, pc, loc>>

create_payment ==
    /\ Len(invoices) + Len(payments) + Len(allocations) < MaxRows
    /\ \E property_id \in Properties, amount \in PaymentAmounts, auto_allocate \in BOOLEAN :
          Allocate("create_payment", Len(payments) + 1, 0, amount,
                   create_payment_result(invoices, payments, allocations,
                                         property_id, amount, auto_allocate))

allocate_payment_fifo ==
    \E payment_id \in 1..Len(payments) :
        Allocate("allocate_payment_fifo", payment_id, 0, 0,
                 allocate_payment_fifo_result(invoices, payments, allocations, payment_id))

create_manual_allocation ==
    \E payment_id \in 1..Len(payments), invoice_id \in 1..Len(invoices),
       amount \in ManualAmounts :
        Allocate("create_manual_allocation", payment_id, invoice_id, amount,
                 create_manual_allocation_result(invoices, payments, allocations,
                                                 payment_id, invoice_id, amount))

process_bulk_fifo_allocation ==
    \E property_id \in Properties :
        Allocate("process_bulk_fifo_allocation", 0, 0, 0,
                 process_bulk_fifo_allocation_result(invoices, payments, allocations,
                                                     property_id))

AllocationNext ==
    \/ create_invoice
    \/ create_payment
    \/ allocate_payment_fifo
    \/ create_manual_allocation
    \/ process_bulk_fifo_allocation

AllocationSpec == Init /\ [][AllocationNext]_vars

(***************************************************************************)
(* Invoice status specification: the allocation calls, and invoices that   *)
(* are marked overdue or canceled through update_invoice_status            *)
(***************************************************************************)
\* the statuses update_invoice_status is called with
ClosingStatuses == {"overdue", "canceled"}

\* committed state after InvoiceService.update_invoice_status(invoice_id, status)
update_invoice_status_result(invs, invoice_id, status) ==
    IF invoice_id \notin 1..Len(invs) THEN invs
    ELSE [invs EXCEPT ![invoice_id].status = status]

update_invoice_status ==
    \E invoice_id \in 1..Len(invoices), status \in ClosingStatuses :
        /\ invoices' = update_invoice_status_result(invoices, invoice_id, status)
        /\ last' = [op |-> "update_invoice_status", result |-> "ok", payment_id |-> 0,
                    invoice_id |-> invoice_id, amount |-> 0, created |-> <<>>]
        /\ UNCHANGED <<ledger, accounts, payments, allocations, transactions, pc, loc>>

InvoiceStatusNext ==
    \/ create_invoice
    \/ create_payment
    \/ allocate_payment_fifo
    \/ create_manual_allocation
    \/ process_bulk_fifo_allocation
    \/ update_invoice_status

InvoiceStatusSpec == Init /\ [][InvoiceStatusNext]_vars

(***************************************************************************)
(* ReconciliationService: scored matching of bank transactions and payments *)
(*                                                                         *)
(* Dates are day numbers.  Amounts are whole baht written in units of 0.01, *)
(* for which the float subtraction and the products with 0.01 and 0.1 are   *)
(* exact.  A score is a Python float, written here in thousandths whose     *)
(* last digit counts the units in the last place by which the double        *)
(* differs from the two-decimal value: 0.9 is 900, 0.8999999999999999 is    *)
(* 899, 0.30000000000000004 is 301.  The order of the numbers is the order  *)
(* of the doubles.                                                         *)
(***************************************************************************)
Abs(x) == IF x < 0 THEN 0 - x ELSE x

Elements(seq) == {seq[k] : k \in 1..Len(seq)}

\* "REF123" and "REF12", character by character
Ref123 == <<"R", "E", "F", "1", "2", "3">>

Ref12 == <<"R", "E", "F", "1", "2">>

\* Python's `a in b` on strings
is_substring(a, b) ==
    \E i \in 0..(Len(b) - Len(a)) : SubSeq(b, i + 1, i + Len(a)) = a

\* str.lower() on the words in use
lower(word) == IF word = "Payment" THEN "payment" ELSE word

\* set(text.lower().split()), a text being the sequence of its words
words(text) == {lower(text[k]) : k \in 1..Len(text)}

\* BankTransaction.transaction_amount
transaction_amount(transaction) ==
    IF transaction.credit_amount # 0 THEN transaction.credit_amount
    ELSE transaction.debit_amount

\* abs((transaction.transaction_date - payment.created_at.date()).days)
date_diff(transaction, payment) ==
    Abs(transaction.transaction_date - payment.created_at.date)

\* the rounding error of the double addition score + c, in units in the
\* last place: 0.1 + 0.2 = 0.30000000000000004, 0.7 + 0.1 = 0.7999999999999999
rounding(score, c) ==
    CASE <<score, c>> \in {<<100, 50>>, <<100, 200>>, <<200, 100>>, <<400, 200>>,
                           <<799, 50>>, <<800, 50>>, <<899, 50>>} -> 1
      [] <<score, c>> \in {<<301, 100>>, <<301, 200>>, <<601, 200>>, <<700, 100>>,
                           <<700, 200>>, <<701, 100>>} -> 0 - 1
      [] OTHER -> 0

\* "score += c" on doubles
float_add(score, c) == score + c + rounding(score, c)

\* Payment.notes, the text the description is compared with
payment_notes(payment) == payment.notes

\* ReconciliationService._calculate_match_score; with decimal, the weights
\* are added as decimals instead
match_score(transaction, payment, decimal) ==
    LET add(score, c) == IF decimal THEN score + c ELSE float_add(score, c)
        amount_diff == Abs(transaction_amount(transaction) - payment.amount)
        amount_scored ==
            IF amount_diff = 0 THEN add(0, 400)
            ELSE IF amount_diff <= 100 THEN add(0, 300)
            ELSE IF amount_diff * 100 <= payment.amount THEN add(0, 200)
            ELSE 0
        days == date_diff(transaction, payment)
        date_scored ==
            IF days = 0 THEN add(amount_scored, 300)
            ELSE IF days <= 1 THEN add(amount_scored, 200)
            ELSE IF days <= 3 THEN add(amount_scored, 100)
            ELSE amount_scored
        reference_scored ==
            IF transaction.reference_number # <<>> /\ payment.reference_number # <<>>
            THEN IF transaction.reference_number = payment.reference_number
                 THEN add(date_scored, 200)
                 ELSE IF \/ is_substring(transaction.reference_number,
                                         payment.reference_number)
                         \/ is_substring(payment.reference_number,
                                         transaction.reference_number)
                 THEN add(date_scored, 100)
                 ELSE date_scored
            ELSE date_scored
        payment_words == words(payment_notes(payment))
        desc_words == words(transaction.description)
        common_words == payment_words \cap desc_words
        description_scored ==
            IF /\ payment_notes(payment) # <<>>
               /\ transaction.description # <<>>
               /\ common_words # {}
            THEN add(reference_scored,
                     (100 * Cardinality(common_words))
                        \div Max(Cardinality(payment_words), Cardinality(desc_words)))
            ELSE reference_scored
    IN Min(description_scored, 1000)

\* ReconciliationService._calculate_match_score
calculate_match_score(transaction, payment) == match_score(transaction, payment, FALSE)

\* the Numeric(3, 2) column match_confidence, in hundredths
stored_confidence(score) == (score + 5) \div 10

\* the loop of _find_matching_payment: the first payment with the greatest
\* score wins, if that score reaches 0.8; 0 stands for None
RECURSIVE find_matching_loop(_, _, _, _, _)
find_matching_loop(transaction, pool, pays, best_match, best_score) ==
    IF pool = <<>> THEN best_match
    ELSE LET score == calculate_match_score(transaction, pays[Head(pool)])
         IN IF score > best_score /\ score >= 800
            THEN find_matching_loop(transaction, Tail(pool), pays, Head(pool), score)
            ELSE find_matching_loop(transaction, Tail(pool), pays, best_match, best_score)

\* a search that looks at the first payment of the pool only
find_matching_payment_first(transaction, pool, pays) ==
    IF pool = <<>> THEN 0
    ELSE IF calculate_match_score(transaction, pays[Head(pool)]) >= 800 THEN Head(pool)
    ELSE 0

find_matching_payment(transaction, pool, pays) ==
    find_matching_loop(transaction, pool, pays, 0, 0)

\* the statement under reconciliation
Statement == [period_start |-> 10, period_end |-> 12]

\* payments some transaction is matched to
matched_payment_ids(txs) ==
    {txs[k].matched_payment_id : k \in 1..Len(txs)} \ {0}

\* a pool of every payment, matched or not
get_all_payments(txs, pays) == [k \in 1..Len(pays) |-> k]

\* ReconciliationService._get_unreconciled_payments: created_at between
\* midnight of period_start - 3 and midnight of period_end + 3, rows in
\* table order
RECURSIVE UnreconciledFrom(_, _, _)
UnreconciledFrom(txs, pays, k) ==
    IF k > Len(pays) THEN <<>>
    ELSE (IF /\ pays[k].created_at.date >= Statement.period_start - 3
             /\ \/ pays[k].created_at.date < Statement.period_end + 3
                \/ /\ pays[k].created_at.date = Statement.period_end + 3
                   /\ pays[k].created_at.hour = 0
             /\ k \notin matched_payment_ids(txs)
          THEN <<k>> ELSE <<>>)
         \o UnreconciledFrom(txs, pays, k + 1)

get_unreconciled_payments(txs, pays) == UnreconciledFrom(txs, pays, 1)

\* ReconciliationService._create_match
create_match(txs, pays, transaction_id, payment_id, auto_match, notes) ==
    [txs EXCEPT ![transaction_id] =
        [@ EXCEPT !.matched_payment_id = payment_id,
                  !.reconciliation_status = IF auto_match THEN "auto_matched"
                                            ELSE "manual_matched",
                  !.review_notes = IF auto_match THEN @ ELSE notes,
                  !.match_confidence =
                      stored_confidence(calculate_match_score(txs[transaction_id],
                                                              pays[payment_id]))]]

\* the unmatched credit transactions of the statement, in table order
RECURSIVE UnmatchedFrom(_, _)
UnmatchedFrom(txs, k) ==
    IF k > Len(txs) THEN <<>>
    ELSE (IF txs[k].reconciliation_status = "unmatched" /\ txs[k].credit_amount > 0
          THEN <<k>> ELSE <<>>)
         \o UnmatchedFrom(txs, k + 1)

\* the loop of auto_reconcile_statement; every match is committed
RECURSIVE auto_reconcile_loop(_, _, _, _)
auto_reconcile_loop(unmatched_transactions, pool, txs, pays) ==
    IF unmatched_transactions = <<>> THEN txs
    ELSE LET transaction_id == Head(unmatched_transactions)
             matched_payment == find_matching_payment(txs[transaction_id], pool, pays)
         IN IF matched_payment # 0
            THEN auto_reconcile_loop(Tail(unmatched_transactions),
                                     SelectSeq(pool, LAMBDA q : q # matched_payment),
                                     create_match(txs, pays, transaction_id, matched_payment,
                                                  TRUE, ""),
                                     pays)
            ELSE auto_reconcile_loop(Tail(unmatched_transactions), pool, txs, pays)

\* the transactions after auto_reconcile_statement
auto_reconcile_statement_result(txs, pays) ==
    auto_reconcile_loop(UnmatchedFrom(txs, 1), get_unreconciled_payments(txs, pays), txs, pays)

\* a validation without the date check
validate_manual_match_undated(txs, pays, transaction_id, payment_id) ==
    LET amount_diff == Abs(transaction_amount(txs[transaction_id]) - pays[payment_id].amount)
    IN (IF \E k \in 1..Len(txs) : txs[k].matched_payment_id = payment_id /\ k # transaction_id
        THEN {"already matched"} ELSE {})
       \cup (IF amount_diff * 10 > pays[payment_id].amount THEN {"amount"} ELSE {})

\* ReconciliationService._validate_manual_match: the errors found
validate_manual_match(txs, pays, transaction_id, payment_id) ==
    LET existing == {k \in 1..Len(txs) : txs[k].matched_payment_id = payment_id}
        existing_match == IF existing = {} THEN 0
                          ELSE CHOOSE k \in existing : \A j \in existing : k <= j
        amount_diff == Abs(transaction_amount(txs[transaction_id]) - pays[payment_id].amount)
    IN (IF existing_match # 0 /\ existing_match # transaction_id
        THEN {"already matched"} ELSE {})
       \cup (IF amount_diff * 10 > pays[payment_id].amount THEN {"amount"} ELSE {})
       \cup (IF date_diff(txs[transaction_id], pays[payment_id]) > 7 THEN {"date"} ELSE {})

\* committed transactions and result of manual_reconcile
manual_reconcile_result(txs, pays, transaction_id, payment_id, notes) ==
    IF transaction_id \notin 1..Len(txs)
    THEN [result |-> "ValueError: transaction not found", transactions |-> txs]
    ELSE IF payment_id \notin 1..Len(pays)
    THEN [result |-> "ValueError: payment not found", transactions |-> txs]
    ELSE IF validate_manual_match(txs, pays, transaction_id, payment_id) # {}
    THEN [result |-> "ValueError: invalid match", transactions |-> txs]
    ELSE [result |-> "ok",
          transactions |-> create_match(txs, pays, transaction_id, payment_id, FALSE, notes)]

\* an unmatch that resets the status and keeps the payment
unmatch_transaction_status_only(txs, transaction_id, reason) ==
    IF transaction_id \notin 1..Len(txs)
    THEN [result |-> "ValueError: transaction not found", transactions |-> txs]
    ELSE [result |-> "ok",
          transactions |-> [txs EXCEPT ![transaction_id] =
                               [@ EXCEPT !.reconciliation_status = "unmatched",
                                         !.review_notes = reason]]]

\* committed transactions and result of unmatch_transaction
unmatch_transaction_result(txs, transaction_id, reason) ==
    IF transaction_id \notin 1..Len(txs)
    THEN [result |-> "ValueError: transaction not found", transactions |-> txs]
    ELSE [result |-> "ok",
          transactions |-> [txs EXCEPT ![transaction_id] =
                               [@ EXCEPT !.matched_payment_id = 0,
                                         !.reconciliation_status = "unmatched",
                                         !.match_confidence = "None",
                                         !.review_notes = reason]]]

(***************************************************************************)
(* Reconciliation specification: one statement whose first transaction and  *)
(* the first payment range over every score bracket; further rows come from *)
(* a few samples.  One call at a time.                                      *)
(***************************************************************************)
BankTransaction(credit_amount, debit_amount, transaction_date, reference_number, description) ==
    [credit_amount |-> credit_amount, debit_amount |-> debit_amount,
     transaction_date |-> transaction_date, reference_number |-> reference_number,
     description |-> description, reconciliation_status |-> "unmatched",
     matched_payment_id |-> 0, match_confidence |-> "None", review_notes |-> ""]

BankPayment(amount, date, hour, reference_number, notes) ==
    [amount |-> amount, created_at |-> [date |-> date, hour |-> hour],
     reference_number |-> reference_number, notes |-> notes]

\* 2500.00, 2501.00, 2470.00, 3000.00 on days D .. D+8
TransactionInputs ==
    {BankTransaction(credit_amount, 0, transaction_date, reference_number, description) :
        credit_amount \in {250000, 250100, 247000, 300000},
        transaction_date \in {10, 11, 13, 15, 18},
        reference_number \in {<<>>, Ref123, Ref12},
        description \in {<<>>, <<"Payment">>, <<"Payment", "fee">>}}

\* 2500.00 and 2490.00 on day D
PaymentInputs ==
    {BankPayment(amount, 10, 10, Ref123, <<"payment", "fee">>) : amount \in {250000, 249000}}

\* a second credit of 2500.00 and a debit
MoreTransactions ==
    {BankTransaction(250000, 0, 10, Ref123, <<"Payment", "fee">>),
     BankTransaction(0, 250000, 10, Ref123, <<>>)}

\* a second payment of 2500.00 on day D, and one created after the window
MorePayments ==
    {BankPayment(250000, 10, 10, Ref123, <<"payment", "fee">>),
     BankPayment(250000, 15, 10, Ref123, <<>>)}

ReviewNotes == {"checked"}

ReconciliationCall(op, result, transaction_id, payment_id) ==
    [op |-> op, result |-> result, transaction_id |-> transaction_id,
     payment_id |-> payment_id]

ReconciliationInit ==
    /\ periods = {}
    /\ entries = <<>>
    /\ gl = EmptyLedger
    /\ foreign_keys = TRUE
    /\ accounts = sample_accounts
    /\ invoices = <<>>
    /\ allocations = <<>>
    /\ payment_journal_entries = <<>>
    /\ \E transaction \in TransactionInputs : transactions = <<transaction>>
    /\ \E payment \in PaymentInputs : payments = <<payment>>
    /\ last = ReconciliationCall("none", "none", 0, 0)
    /\ pc = [w \in Workers |-> "idle"]
    /\ loc = [w \in Workers |-> NoLocal]

import_transaction ==
    /\ Len(transactions) + Len(payments) < MaxStatementRows
    /\ \E transaction \in MoreTransactions :
          transactions' = Append(transactions, transaction)
    /\ last' = ReconciliationCall("import_transaction", "ok", Len(transactions) + 1, 0)
    /\ UNCHANGED <<ledger, accounts, invoices, payments, allocations, pc, loc>>

record_payment ==
    /\ Len(transactions) + Len(payments) < MaxStatementRows
    /\ \E payment \in MorePayments : payments' = Append(payments, payment)
    /\ last' = ReconciliationCall("record_payment", "ok", 0, Len(payments) + 1)
    /\ UNCHANGED <<ledger, accounts, invoices, allocations, transactions, pc, loc>>

auto_reconcile_statement ==
    /\ transactions' = auto_reconcile_statement_result(transactions, payments)
    /\ last' = ReconciliationCall("auto_reconcile_statement", "ok", 0, 0)
    /\ UNCHANGED <<ledger, accounts, invoices, payments, allocations, pc, loc>>

manual_reconcile ==
    /\ \E transaction_id \in 1..Len(transactions), payment_id \in 1..Len(payments),
          notes \in ReviewNotes :
          LET r == manual_reconcile_result(transactions, payments, transaction_id,
                                           payment_id, notes)
          IN /\ transactions' = r.transactions
             /\ last' = ReconciliationCall("manual_reconcile", r.result, transaction_id,
                                           payment_id)
    /\ UNCHANGED <<ledger, accounts, invoices, payments, allocations, pc, loc>>

unmatch_transaction ==
    /\ \E transaction_id \in 1..Len(transactions) :
          LET r == unmatch_transaction_result(transactions, transaction_id,
                                              "Unmatched: wrong payment")
          IN /\ transactions' = r.transactions
             /\ last' = ReconciliationCall("unmatch_transaction", r.result, transaction_id,
                                           transactions[transaction_id].matched_payment_id)
    /\ UNCHANGED <<ledger, accounts, invoices, payments, allocations, pc, loc>>

ReconciliationNext ==
    \/ import_transaction
    \/ record_payment
    \/ auto_reconcile_statement
    \/ manual_reconcile
    \/ unmatch_transaction

ReconciliationSpec == ReconciliationInit /\ [][ReconciliationNext]_vars

(***************************************************************************)
(* ReportingService.get_trial_balance                                      *)
(***************************************************************************)
RECURSIVE SumOver(_, _)
SumOver(S, f) ==
    IF S = {} THEN 0
    ELSE LET x == CHOOSE y \in S : TRUE IN f[x] + SumOver(S \ {x}, f)

\* the report for period_id over the general ledger g
get_trial_balance(g, period_id) ==
    LET rows == {k \in DOMAIN g : k[2] = period_id /\ k[1] \in ChartOfAccounts}
        debit_rows == {k \in rows : balance_type(k[1]) = "DEBIT" /\ g[k].ending_balance > 0}
        credit_rows == {k \in rows : balance_type(k[1]) = "CREDIT" /\ g[k].ending_balance > 0}
        balance == [k \in rows |-> g[k].ending_balance]
        td == SumOver(debit_rows, balance)
        tc == SumOver(credit_rows, balance)
    IN [total_debits |-> td, total_credits |-> tc, is_balanced |-> td = tc]

(***************************************************************************)
(* Concurrent allocation specification: two sessions, each running          *)
(* create_manual_allocation or allocate_payment_fifo.  A session reads the  *)
(* committed rows (READ COMMITTED, no row lock), works on what it read and  *)
(* its commit writes the new PaymentInvoice rows and the changed status     *)
(* columns.  The invoices and payments are created before the sessions      *)
(* begin.                                                                   *)
(***************************************************************************)
ConcurrentOps == {"create_manual_allocation", "allocate_payment_fifo"}

\* rows the running sessions have added and not yet committed
HeldRows ==
    SumOver({w \in Workers : pc[w] = "commit_allocation"},
            [w \in Workers |-> Len(loc[w].created)])

create_invoice_before ==
    /\ NoneBegun
    /\ create_invoice

create_payment_before ==
    /\ NoneBegun
    /\ create_payment

\* what a session computes from the rows it read: the call's result, the
\* rows it adds and the columns it changes
begin_allocation(w) ==
    /\ pc[w] = "idle"
    /\ \E op \in ConcurrentOps, payment_id \in 1..Len(payments),
          invoice_id \in 1..Len(invoices), amount \in ManualAmounts :
          LET r == IF op = "create_manual_allocation"
                   THEN create_manual_allocation_result(invoices, payments, allocations,
                                                        payment_id, invoice_id, amount)
                   ELSE allocate_payment_fifo_result(invoices, payments, allocations,
                                                     payment_id)
          IN /\ Len(invoices) + Len(payments) + Len(allocations) + HeldRows
                   + Len(r.created) <= MaxRows
             /\ loc' = [loc EXCEPT ![w] =
                            [NoLocal EXCEPT !.op = op, !.payment_id = payment_id,
                                            !.result = r.result,
                                            !.created = r.created,
                                            !.payment_status = r.payments[payment_id].status,
                                            !.paid = {i \in 1..Len(invoices) :
                                                        /\ r.invoices[i].status = "paid"
                                                        /\ invoices[i].status # "paid"}]]
             /\ pc' = [pc EXCEPT ![w] = IF r.result = "ok" THEN "commit_allocation"
                                        ELSE "returned"]
    /\ UNCHANGED <<ledger, subledgers, last>>

\* the session's commit: INSERT of its rows, UPDATE of the status columns
commit_allocation(w) ==
    /\ pc[w] = "commit_allocation"
    /\ allocations' = allocations \o loc[w].created
    /\ payments' = [payments EXCEPT ![loc[w].payment_id].status = loc[w].payment_status]
    /\ invoices' = [i \in 1..Len(invoices) |->
                        IF i \in loc[w].paid THEN [invoices[i] EXCEPT !.status = "paid"]
                        ELSE invoices[i]]
    /\ pc' = [pc EXCEPT ![w] = "returned"]
    /\ UNCHANGED <<ledger, accounts, transactions, last, loc>>

ConcurrentAllocationNext ==
    \/ create_invoice_before
    \/ create_payment_before
    \/ \E w \in Workers :
          \/ begin_allocation(w)
          \/ commit_allocation(w)

ConcurrentAllocationSpec == Init /\ [][ConcurrentAllocationNext]_vars

(***************************************************************************)
(* PaymentService.approve_payment / reject_payment and                     *)
(* PaymentAccountingService.create_journal_entry_for_payment               *)
(*                                                                         *)
(* A user id is a positive integer and 0 stands for None.  The rows of     *)
(* payment_journal_entries are the bridge records <<payment, entry>>; the  *)
(* journal entry of a payment carries the payment as its reference_id.     *)
(***************************************************************************)
\* the payment date of the submitted payments
PaymentDate == Dt(2025, 1, 15, 0)

Users == {0, 1}

\* a payment waiting for approval
PendingPayment(property_id, amount) ==
    [property_id |-> property_id, amount |-> amount, status |-> "PENDING",
     payment_date |-> PaymentDate, approved_by_id |-> 0, rejected_by_id |-> 0]

\* the methods of the class AccountingService
AccountingServiceMethods ==
    {"get_current_period", "_create_monthly_period", "generate_entry_number",
     "create_journal_entry", "post_journal_entry", "_update_general_ledger"}

\* the bridge records of a payment
existing_bridge(bridges, payment_id) == SelectSeq(bridges, LAMBDA b : b[1] = payment_id)

\* the journal entry with its reference to the payment
with_reference(entry, payment_id) == [reference_id |-> payment_id] @@ entry

\* the entries of ents past the first n, referring to the payment
RECURSIVE stamp_created(_, _, _)
stamp_created(ents, n, payment_id) ==
    IF Len(ents) <= n THEN ents
    ELSE Append(stamp_created(SubSeq(ents, 1, Len(ents) - 1), n, payment_id),
                with_reference(ents[Len(ents)], payment_id))

\* the end of create_journal_entry_for_payment, where r is what
\* create_journal_entry left committed over the n entries there were: an
\* exception goes to the caller, otherwise the bridge record is committed
add_bridge(r, n, bridges, payment_id) ==
    [result |-> r.result, periods |-> r.periods,
     entries |-> stamp_created(r.entries, n, payment_id), gl |-> r.gl,
     bridges |-> IF r.result = "ok" THEN Append(bridges, <<payment_id, Len(r.entries)>>)
                 ELSE bridges]

\* the steps of create_journal_entry_for_payment that follow the query of the
\* bridge record: the two accounts, create_journal_entry with auto_post=True,
\* the bridge record and its commit
create_entry_and_bridge(ps, ents, g, fk, bridges, accs, pays, payment_id) ==
    IF existing_account(accs, Bank) = {} \/ existing_account(accs, Revenue) = {}
    THEN [result |-> "ValueError: accounts not found", periods |-> ps, entries |-> ents,
          gl |-> g, bridges |-> bridges]
    ELSE add_bridge(create_journal_entry_result(ps, ents, g, fk,
                                                PaymentLines(pays[payment_id].amount),
                                                pays[payment_id].payment_date, TRUE),
                    Len(ents), bridges, payment_id)

\* the two checks that open create_journal_entry_for_payment
bridge_error(bridges, pays, payment_id) ==
    IF payment_id \notin 1..Len(pays) THEN "ValueError: Payment not found"
    ELSE IF existing_bridge(bridges, payment_id) # <<>>
    THEN "ValueError: Journal entry already exists for this payment"
    ELSE "ok"

\* committed state after create_journal_entry_for_payment(payment_id)
create_journal_entry_for_payment_result(ps, ents, g, fk, bridges, accs, pays, payment_id) ==
    IF bridge_error(bridges, pays, payment_id) # "ok"
    THEN [result |-> bridge_error(bridges, pays, payment_id), periods |-> ps,
          entries |-> ents, gl |-> g, bridges |-> bridges]
    ELSE create_entry_and_bridge(ps, ents, g, fk, bridges, accs, pays, payment_id)

\* "self.accounting_service.create_journal_entry_for_payment(payment_id)" of
\* approve_payment, where self.accounting_service is an AccountingService:
\* the attribute lookup raises before anything is called
accounting_service_call(methods, ps, ents, g, fk, bridges, accs, pays, payment_id) ==
    IF "create_journal_entry_for_payment" \notin methods
    THEN [result |-> "AttributeError", periods |-> ps, entries |-> ents, gl |-> g,
          bridges |-> bridges]
    ELSE create_journal_entry_for_payment_result(ps, ents, g, fk, bridges, accs, pays,
                                                 payment_id)

\* what approve_payment leaves and returns after the commit of the approval,
\* where j is the outcome of the journal step and f of the FIFO allocation:
\* both try blocks catch Exception
approved_outcome(j, f, payment_id) ==
    [result |-> "ok", status |-> f.payments[payment_id].status,
     journal |-> j.result, fifo |-> f.result,
     periods |-> j.periods, entries |-> j.entries, gl |-> j.gl, bridges |-> j.bridges,
     invoices |-> f.invoices, payments |-> f.payments, allocations |-> f.allocations]

\* the payment rows after the commit of the approval
approved(pays, payment_id, approved_by_id) ==
    [pays EXCEPT ![payment_id].status = "CONFIRMED",
                 ![payment_id].approved_by_id = approved_by_id]

\* committed state after approve_payment(payment_id, approved_by_id), and the
\* status of the payment object it returns
approve_payment_result(ps, ents, g, fk, bridges, accs, invs, pays, allocs, payment_id, approved_by_id) ==
    IF payment_id \notin 1..Len(pays)
    THEN [result |-> "ValueError: not found", status |-> "none", journal |-> "none",
          fifo |-> "none", periods |-> ps, entries |-> ents, gl |-> g, bridges |-> bridges,
          invoices |-> invs, payments |-> pays, allocations |-> allocs]
    ELSE IF pays[payment_id].status # "PENDING"
    THEN [result |-> "ValueError: not in pending status", status |-> "none",
          journal |-> "none", fifo |-> "none", periods |-> ps, entries |-> ents, gl |-> g,
          bridges |-> bridges, invoices |-> invs, payments |-> pays, allocations |-> allocs]
    ELSE approved_outcome(
             accounting_service_call(AccountingServiceMethods, ps, ents, g, fk, bridges, accs,
                                     approved(pays, payment_id, approved_by_id), payment_id),
             allocate_payment_fifo_result(invs, approved(pays, payment_id, approved_by_id),
                                          allocs, payment_id),
             payment_id)

\* committed state after reject_payment(payment_id, rejected_by_id)
reject_payment_result(pays, payment_id, rejected_by_id) ==
    IF payment_id \notin 1..Len(pays)
    THEN [result |-> "ValueError: not found", status |-> "none", payments |-> pays]
    ELSE IF pays[payment_id].status # "PENDING"
    THEN [result |-> "ValueError: not in pending status", status |-> "none",
          payments |-> pays]
    ELSE [result |-> "ok", status |-> "CANCELLED",
          payments |-> [pays EXCEPT ![payment_id].status = "CANCELLED",
                                    ![payment_id].rejected_by_id = rejected_by_id]]

(***************************************************************************)
(* Approval specification: one call at a time                              *)
(***************************************************************************)
ApprovalCall(op, payment_id, user_id, r) ==
    [op |-> op, result |-> r.result, payment_id |-> payment_id, user_id |-> user_id,
     status |-> r.status, journal |-> r.journal, fifo |-> r.fifo]

submit_payment ==
    /\ Len(payments) < MaxPending
    /\ Len(invoices) + Len(payments) + Len(allocations) < MaxRows
    /\ \E property_id \in Properties, amount \in PaymentAmounts :
          /\ payments' = Append(payments, PendingPayment(property_id, amount))
          /\ last' = [op |-> "submit_payment", result |-> "ok",
                      payment_id |-> Len(payments) + 1]
    /\ UNCHANGED <<ledger, accounts, invoices, allocations, transactions, pc, loc>>

\* the effect of an approval call on the tables
Approve(payment_id, approved_by_id, r) ==
    /\ Len(r.invoices) + Len(r.payments) + Len(r.allocations) <= MaxRows
    /\ Len(r.entries) <= MaxEntries
    /\ periods' = r.periods
    /\ entries' = r.entries
    /\ gl' = r.gl
    /\ payment_journal_entries' = r.bridges
    /\ invoices' = r.invoices
    /\ payments' = r.payments
    /\ allocations' = r.allocations
    /\ last' = ApprovalCall("approve_payment", payment_id, approved_by_id, r)
    /\ UNCHANGED <<foreign_keys, accounts, transactions, pc, loc>>

approve_payment ==
    \E payment_id \in 1..Len(payments), approved_by_id \in Users :
        Approve(payment_id, approved_by_id,
                approve_payment_result(periods, entries, gl, foreign_keys,
                                       payment_journal_entries, accounts, invoices,
                                       payments, allocations, payment_id, approved_by_id))

\* the effect of a rejection call on the payments
Reject(payment_id, rejected_by_id, r) ==
    /\ payments' = r.payments
    /\ last' = [op |-> "reject_payment", result |-> r.result, payment_id |-> payment_id,
                user_id |-> rejected_by_id, status |-> r.status, journal |-> "none",
                fifo |-> "none"]
    /\ UNCHANGED <<ledger, accounts, invoices, allocations, transactions, pc, loc>>

reject_payment ==
    \E payment_id \in 1..Len(payments), rejected_by_id \in Users :
        Reject(payment_id, rejected_by_id,
               reject_payment_result(payments, payment_id, rejected_by_id))

ApprovalNext ==
    \/ create_invoice
    \/ submit_payment
    \/ approve_payment
    \/ reject_payment

ApprovalSpec == Init /\ [][ApprovalNext]_vars

(***************************************************************************)
(* Bridge specification: payments are submitted and given their journal    *)
(* entry one call at a time; then each worker runs one                     *)
(* create_journal_entry_for_payment in its own session.  A step is what    *)
(* the session does between two points where another session's commit can  *)
(* become visible to it: the two queries that open the call, then the rest *)
(* of the call.                                                            *)
(***************************************************************************)
submit_payment_before ==
    /\ NoneBegun
    /\ submit_payment

\* the effect of create_journal_entry_for_payment on the ledger tables
Journal(r) ==
    /\ Len(r.entries) <= MaxEntries
    /\ periods' = r.periods
    /\ entries' = r.entries
    /\ gl' = r.gl
    /\ payment_journal_entries' = r.bridges

\* the module function create_journal_entry_for_payment(payment_id, db), run
\* to its end before the sessions begin
JournalCall(payment_id, r) ==
    /\ Journal(r)
    /\ last' = [op |-> "create_journal_entry_for_payment", result |-> r.result,
                payment_id |-> payment_id]
    /\ UNCHANGED <<foreign_keys, subledgers, pc, loc>>

create_journal_entry_for_payment ==
    /\ NoneBegun
    /\ \E payment_id \in 1..Len(payments) :
          JournalCall(payment_id,
                      create_journal_entry_for_payment_result(
                          periods, entries, gl, foreign_keys, payment_journal_entries,
                          accounts, payments, payment_id))

\* the queries of the payment and of its bridge record
query_bridge(w) ==
    /\ pc[w] = "idle"
    /\ \E payment_id \in 1..Len(payments) :
          LET error == bridge_error(payment_journal_entries, payments, payment_id)
          IN /\ pc' = [pc EXCEPT ![w] = IF error = "ok" THEN "create" ELSE "returned"]
             /\ loc' = [loc EXCEPT ![w] = [NoLocal EXCEPT
                            !.op = "create_journal_entry_for_payment",
                            !.payment_id = payment_id, !.result = error]]
    /\ UNCHANGED <<ledger, subledgers, last>>

\* the return of the session's call
Returned(w, r) ==
    /\ Journal(r)
    /\ pc' = [pc EXCEPT ![w] = "returned"]
    /\ loc' = [loc EXCEPT ![w].result = r.result]
    /\ UNCHANGED <<foreign_keys, subledgers, last>>

\* the entry, its posting and the bridge record
create_bridge(w) ==
    /\ pc[w] = "create"
    /\ Len(entries) < MaxEntries
    /\ Returned(w, create_entry_and_bridge(periods, entries, gl, foreign_keys,
                                           payment_journal_entries, accounts, payments,
                                           loc[w].payment_id))

BridgeNext ==
    \/ submit_payment_before
    \/ create_journal_entry_for_payment
    \/ \E w \in Workers : query_bridge(w)
    \/ \E w \in Workers : create_bridge(w)

BridgeSpec == Init /\ [][BridgeNext]_vars

(***************************************************************************)
(* Properties of the sequential ledger                                     *)
(***************************************************************************)
EntryIds == 1..Len(entries)

\* C1: every POSTED journal entry has the sum of its lines' debits equal to
\* the sum of its lines' credits, and its stored total_debit and total_credit
\* are those two sums.
C1_PostedEntriesBalanced ==
    \A i \in EntryIds :
        entries[i].status = "POSTED" =>
            /\ SumDebit(entries[i].lines) = SumCredit(entries[i].lines)
            /\ entries[i].total_debit = SumDebit(entries[i].lines)
            /\ entries[i].total_credit = SumCredit(entries[i].lines)

C1_Witness ==
    \E i \in EntryIds :
        /\ entries[i].status = "POSTED"
        /\ Len(entries[i].lines) >= 2
        /\ entries[i].total_debit > 0

\* an entry whose posting cannot fail: POSTED with every line on a chart account
CompletelyPosted(i) ==
    /\ entries[i].status = "POSTED"
    /\ \A k \in 1..Len(entries[i].lines) : entries[i].lines[k].account_id \in ChartOfAccounts

\* C2: after any sequence of successfully posted journal entries the trial
\* balance of each period reports total debits equal to total credits.
C2_TrialBalanceBalanced ==
    (\A i \in EntryIds : CompletelyPosted(i)) =>
        \A p \in periods : get_trial_balance(gl, p.id).is_balanced

\* debit and credit amounts an entry's lines carry for one account
RECURSIVE DebitOn(_, _)
DebitOn(lines, a) ==
    IF lines = <<>> THEN 0
    ELSE (IF lines[1].account_id = a THEN lines[1].debit_amount ELSE 0)
         + DebitOn(Tail(lines), a)

RECURSIVE CreditOn(_, _)
CreditOn(lines, a) ==
    IF lines = <<>> THEN 0
    ELSE (IF lines[1].account_id = a THEN lines[1].credit_amount ELSE 0)
         + CreditOn(Tail(lines), a)

AllAccounts == ChartOfAccounts \cup {Ghost}

PeriodIds == {p.id : p \in periods}

ZeroRow == [beginning_balance |-> 0, ending_balance |-> 0, debit_total |-> 0, credit_total |-> 0]

RowOf(g, key) == IF key \in DOMAIN g THEN g[key] ELSE ZeroRow

\* entry i went from DRAFT (or from not existing) to POSTED in this step, and
\* the call returned normally
PostedInStep(i) ==
    /\ i \in 1..Len(entries')
    /\ entries'[i].status = "POSTED"
    /\ (i > Len(entries) \/ entries[i].status = "DRAFT")
    /\ last'.result = "ok"

\* C3: posting a DRAFT entry applies every line to the general-ledger row of
\* (line account, entry period): the row exists afterwards with beginning
\* balance 0 if it was absent, debit_total and credit_total grow by the
\* line amounts, ending_balance is beginning + debit - credit for a DEBIT
\* account and beginning + credit - debit for a CREDIT account, and no other
\* row changes; [debit Bank a, credit Revenue a] on an empty ledger leaves
\* Bank and Revenue with ending balance +a.
C3_PostingAppliesLines ==
    [][\A i \in 1..Len(entries') : PostedInStep(i) =>
        LET e == entries'[i] IN
        /\ \A a \in AllAccounts, p \in {q.id : q \in periods'} :
            LET key == <<a, p>>
                before == RowOf(gl, key)
                touched == p = e.period_id
                           /\ \E k \in 1..Len(e.lines) : e.lines[k].account_id = a
            IN IF touched
               THEN /\ key \in DOMAIN gl'
                    /\ gl'[key].beginning_balance = before.beginning_balance
                    /\ gl'[key].debit_total = before.debit_total + DebitOn(e.lines, a)
                    /\ gl'[key].credit_total = before.credit_total + CreditOn(e.lines, a)
                    /\ gl'[key].ending_balance =
                          IF a = Revenue
                          THEN gl'[key].beginning_balance + gl'[key].credit_total
                               - gl'[key].debit_total
                          ELSE gl'[key].beginning_balance + gl'[key].debit_total
                               - gl'[key].credit_total
               ELSE /\ key \in DOMAIN gl' <=> key \in DOMAIN gl
                    /\ key \in DOMAIN gl => gl'[key] = gl[key]
        /\ \A a \in 1..MaxAmount :
              (gl = EmptyLedger /\ e.lines = PaymentLines(a)) =>
                  /\ gl'[<<Bank, e.period_id>>].ending_balance = a
                  /\ gl'[<<Revenue, e.period_id>>].ending_balance = a
      ]_vars

C3_Witness ==
    /\ last.op = "post" /\ last.result = "ok"
    /\ last.id \in EntryIds
    /\ entries[last.id].status = "POSTED"
    /\ \E a \in 1..MaxAmount :
          /\ entries[last.id].lines = PaymentLines(a)
          /\ <<Bank, entries[last.id].period_id>> \in DOMAIN gl
          /\ <<Revenue, entries[last.id].period_id>> \in DOMAIN gl
          /\ gl[<<Revenue, entries[last.id].period_id>>].credit_total >= a

\* C4: create_journal_entry with total debit different from total credit
\* raises and persists nothing: periods, entries with their lines and the
\* general ledger are what they were before the call.
C4_UnbalancedPersistsNothing ==
    [][(last'.op = "create" /\ ~last'.balanced) =>
          /\ last'.result # "ok"
          /\ periods' = periods
          /\ entries' = entries
          /\ gl' = gl
      ]_vars

C4_Witness ==
    /\ last.op = "create"
    /\ ~last.balanced
    /\ last.result = "ValueError: debits must equal credits"
    /\ periods = {}
    /\ entries = <<>>

\* C5: create_journal_entry accepts lines only if there are at least 2 of
\* them, every line has exactly one strictly positive side, and total debit
\* equals total credit and is greater than 0; every stored entry has such
\* lines.
C5_AcceptsOnlyWellFormed ==
    /\ (last.op = "create" /\ (last.result = "ok" \/ last.id # 0)) => last.wellformed
    /\ \A i \in EntryIds : WellFormed(entries[i].lines)

C5_Witness ==
    /\ last.op = "create"
    /\ last.balanced
    /\ ~last.wellformed
    /\ last.result = "IntegrityError"
    /\ last.id = 0

\* C6: post_journal_entry on an entry that is not DRAFT fails and changes
\* neither the entry nor any general-ledger row.
C6_PostNonDraftRejected ==
    [][(/\ last'.op = "post"
        /\ last'.id \in EntryIds
        /\ entries[last'.id].status # "DRAFT") =>
          /\ last'.result # "ok"
          /\ entries' = entries
          /\ gl' = gl
          /\ periods' = periods
      ]_vars

C6_Witness ==
    /\ last.op = "post"
    /\ last.result = "ValueError: only draft"
    /\ last.id \in EntryIds
    /\ entries[last.id].status = "POSTED"
    /\ <<Bank, entries[last.id].period_id>> \in DOMAIN gl

\* what the lines of the POSTED entries of period p add up to for account a
RECURSIVE PostedDebit(_, _, _)
PostedDebit(ents, a, p) ==
    IF ents = <<>> THEN 0
    ELSE (IF ents[1].status = "POSTED" /\ ents[1].period_id = p
          THEN DebitOn(ents[1].lines, a) ELSE 0)
         + PostedDebit(Tail(ents), a, p)

RECURSIVE PostedCredit(_, _, _)
PostedCredit(ents, a, p) ==
    IF ents = <<>> THEN 0
    ELSE (IF ents[1].status = "POSTED" /\ ents[1].period_id = p
          THEN CreditOn(ents[1].lines, a) ELSE 0)
         + PostedCredit(Tail(ents), a, p)

\* C7: posting is all-or-nothing: in every committed state the general
\* ledger holds exactly the lines of the POSTED entries, so no entry is
\* POSTED with a line missing from the ledger and no line of an entry that
\* is not POSTED is in the ledger.
C7_PostingAllOrNothing ==
    \A a \in AllAccounts, p \in PeriodIds :
        /\ RowOf(gl, <<a, p>>).debit_total = PostedDebit(entries, a, p)
        /\ RowOf(gl, <<a, p>>).credit_total = PostedCredit(entries, a, p)

\* C8: an entry is created DRAFT and stays DRAFT with no ledger effect when
\* auto_post is false; entries are never removed; the only status change is
\* DRAFT to POSTED, and a POSTED entry stays POSTED.
C8_StatusTransitions ==
    [][/\ Len(entries') >= Len(entries)
       /\ \A i \in 1..Len(entries) :
             \/ entries'[i].status = entries[i].status
             \/ (entries[i].status = "DRAFT" /\ entries'[i].status = "POSTED")
       /\ \A i \in (Len(entries) + 1)..Len(entries') :
             /\ entries'[i].status \in {"DRAFT", "POSTED"}
             /\ (last'.op = "create" /\ ~last'.auto_post) =>
                   (entries'[i].status = "DRAFT" /\ gl' = gl)
      ]_vars

C8_Witness ==
    /\ last.op = "post" /\ last.result = "ok"
    /\ last.id \in EntryIds
    /\ entries[last.id].status = "POSTED"
    /\ \E j \in EntryIds : entries[j].status = "DRAFT"

(***************************************************************************)
(* Properties of entry numbering and period resolution                     *)
(***************************************************************************)
\* sequence numbers of the committed entries of one year-month
SeqsOf(ym) ==
    {entries[i].entry_number[3] : i \in
        {j \in EntryIds : <<entries[j].entry_number[1], entries[j].entry_number[2]>> = ym}}

EntriesOf(ym) ==
    {j \in EntryIds : <<entries[j].entry_number[1], entries[j].entry_number[2]>> = ym}

\* C9: entry numbers are scoped to the transaction date's year-month; within
\* a month the numbers of the created entries are pairwise distinct and are
\* 1..n; and when several create_journal_entry calls for one month run
\* concurrently no call obtains a number another call obtained and no call
\* fails because of a number collision.
C9_NumbersSequentialUnderConcurrency ==
    /\ \A i \in EntryIds :
          <<entries[i].entry_number[1], entries[i].entry_number[2]>>
              = <<entries[i].transaction_date.year, entries[i].transaction_date.month>>
    /\ \A i \in EntryIds :
          /\ SeqsOf(<<entries[i].entry_number[1], entries[i].entry_number[2]>>)
                = 1..Cardinality(EntriesOf(<<entries[i].entry_number[1], entries[i].entry_number[2]>>))
    /\ \A w \in Workers : loc[w].result # "IntegrityError: entry_number"
    /\ \A w1 \in Workers, w2 \in Workers :
          (w1 # w2 /\ pc[w1] = "insert_entry" /\ pc[w2] = "insert_entry") =>
              loc[w1].entry_number # loc[w2].entry_number

\* C10: for every transaction date get_current_period returns, without
\* error, an open period whose start is at or before the date and whose end
\* is at or after it, creating the calendar-month period YYYY-MM when none
\* exists.
C10_PeriodContainsDate ==
    last.op = "get_current_period" =>
        /\ last.result = "ok"
        /\ last.period \in periods
        /\ last.period.is_closed = FALSE
        /\ last.period.period_name = <<last.transaction_date.year, last.transaction_date.month>>
        /\ DtKey(last.period.start_date) <= DtKey(last.transaction_date)
        /\ DtKey(last.period.end_date) >= DtKey(last.transaction_date)

(***************************************************************************)
(* Properties of the accounting service under concurrency                  *)
(***************************************************************************)
\* C11: when get_current_period calls for dates of the same month
\* interleave and no period exists yet, exactly one period with that
\* (name, fiscal year) exists afterwards and every caller gets that period
\* back rather than an error.
C11_ConcurrentPeriodCreationIdempotent ==
    /\ \A p1 \in periods, p2 \in periods :
          <<p1.period_name, p1.fiscal_year>> = <<p2.period_name, p2.fiscal_year>>
              => p1 = p2
    /\ \A w \in Workers : loc[w].result # "IntegrityError: period"

\* the entries as the sequential calls left them: the entries the workers
\* took are still DRAFT
BeforeWorkers ==
    [i \in 1..Len(entries) |->
        IF \E w \in Workers : loc[w].entry_id = i
        THEN [entries[i] EXCEPT !.status = "DRAFT"]
        ELSE entries[i]]

\* what the postings of the workers add up to for account a in period p
WorkersDebit(a, p) ==
    SumOver({w \in Workers : loc[w].period_id = p},
            [w \in Workers |-> DebitOn(loc[w].lines, a)])

WorkersCredit(a, p) ==
    SumOver({w \in Workers : loc[w].period_id = p},
            [w \in Workers |-> CreditOn(loc[w].lines, a)])

\* C12: concurrent postings that touch the same (account, period) row lose
\* no update: once the postings of all workers have completed, the row's
\* debit_total and credit_total are the totals the row had before plus the
\* debit and credit amounts of all the postings' lines for that account
\* (there is one row per pair: the ledger is keyed by the pair).
C12_ConcurrentPostingsLoseNoUpdate ==
    (\A w \in Workers : pc[w] = "returned" /\ loc[w].result = "ok") =>
        \A a \in ChartOfAccounts, p \in PeriodIds :
            /\ RowOf(gl, <<a, p>>).debit_total
                  = PostedDebit(BeforeWorkers, a, p) + WorkersDebit(a, p)
            /\ RowOf(gl, <<a, p>>).credit_total
                  = PostedCredit(BeforeWorkers, a, p) + WorkersCredit(a, p)

(***************************************************************************)
(* Properties of the chart of accounts                                     *)
(***************************************************************************)
\* C13: account codes are unique in every reachable state: create_account
\* with a code that already exists fails with an error and adds no account,
\* and create_account with a fresh code adds exactly one active account
\* with that code.
C13_AccountCodesUnique ==
    [][/\ \A a1 \in accounts', a2 \in accounts' :
              a1.account_code = a2.account_code => a1 = a2
       /\ last'.op = "create_account" =>
              IF existing_account(accounts, last'.account_code) # {}
              THEN /\ last'.result # "ok"
                   /\ accounts' = accounts
              ELSE /\ last'.result = "ok"
                   /\ \E a \in accounts' \ accounts :
                         /\ accounts' = accounts \cup {a}
                         /\ a.account_code = last'.account_code
                         /\ a.is_active]_vars

\* a duplicate code was refused and a fresh code was added
C13_Witness ==
    /\ last.op = "create_account"
    /\ last.result = "ValueError: already exists"
    /\ Cardinality(accounts) > Cardinality(sample_accounts)

(***************************************************************************)
(* Properties of payment allocation                                        *)
(***************************************************************************)
\* C14: in every reachable state, after any sequence of
\* allocate_payment_fifo, create_manual_allocation and
\* process_bulk_fifo_allocation calls (FIFO allocation run more than once
\* for the same payment included), the allocations of each invoice sum to
\* at most the invoice amount and the allocations of each payment sum to at
\* most the payment amount.
C14_NeverOverAllocated ==
    /\ \A i \in 1..Len(invoices) :
          SumAmounts(payment_allocations(allocations, i)) <= invoices[i].amount
    /\ \A p \in 1..Len(payments) :
          SumAmounts(invoice_allocations(allocations, p)) <= payments[p].amount

\* the allocations a strict FIFO walk creates: each pending invoice, oldest
\* first, gets min(remaining payment, invoice outstanding)
RECURSIVE FifoShares(_, _, _)
FifoShares(pending, payment_id, remaining) ==
    IF pending = <<>> \/ remaining <= 0 THEN <<>>
    ELSE LET outstanding == calculate_outstanding_amount(invoices, allocations, Head(pending))
             take == Min(remaining, outstanding)
         IN IF outstanding <= 0 THEN FifoShares(Tail(pending), payment_id, remaining)
            ELSE <<[payment_id |-> payment_id, invoice_id |-> Head(pending), amount |-> take]>>
                 \o FifoShares(Tail(pending), payment_id, remaining - take)

\* C15: allocate_payment_fifo walks the payment's property's PENDING
\* invoices in ascending creation order and gives each one min(remaining
\* payment, invoice outstanding); a payment of 5000 against pending invoices
\* A=3000 (older) and B=4000 (newer) yields exactly the allocations A:3000
\* and B:2000, leaves B with 2000 outstanding and leaves the payment fully
\* allocated.
C15_FifoOldestFirst ==
    [][last'.op = "allocate_payment_fifo" =>
          LET payment_id == last'.payment_id
              pending == get_pending_invoices_by_property(
                             invoices, payments[payment_id].property_id)
          IN /\ last'.result = "ok"
             /\ last'.created = FifoShares(pending, payment_id, payments[payment_id].amount)
             /\ allocations' = allocations \o last'.created
             /\ (/\ invoices = <<[property_id |-> 1, amount |-> 300000, status |-> "pending"],
                                 [property_id |-> 1, amount |-> 400000, status |-> "pending"]>>
                 /\ allocations = <<>>
                 /\ payments[payment_id].amount = 500000)
                => /\ allocations' = <<[payment_id |-> payment_id, invoice_id |-> 1,
                                        amount |-> 300000],
                                       [payment_id |-> payment_id, invoice_id |-> 2,
                                        amount |-> 200000]>>
                   /\ calculate_outstanding_amount(invoices', allocations', 2) = 200000
                   /\ payments'[payment_id].status = "FULLY_ALLOCATED"]_vars

\* C17: create_manual_allocation fails with an error when the amount
\* exceeds the payment's unallocated amount, and when the amount exceeds the
\* invoice's outstanding amount; in both cases no allocation is created and
\* neither the payment's nor the invoice's status changes.  Otherwise it
\* creates exactly one allocation of that amount.  (The unallocated and the
\* outstanding amount are the service's: never below zero.)
C17_ManualAllocationLimits ==
    [][last'.op = "create_manual_allocation" =>
          LET payment_id == last'.payment_id
              invoice_id == last'.invoice_id
              unallocated == get_unallocated_amount(payments, allocations, payment_id)
              outstanding == calculate_outstanding_amount(invoices, allocations, invoice_id)
          IN IF last'.amount > unallocated \/ last'.amount > outstanding
             THEN /\ last'.result # "ok"
                  /\ allocations' = allocations
                  /\ payments' = payments
                  /\ invoices' = invoices
             ELSE /\ last'.result = "ok"
                  /\ allocations' = Append(allocations,
                                           [payment_id |-> payment_id,
                                            invoice_id |-> invoice_id,
                                            amount |-> last'.amount])]_vars

\* an allocation within the payment's unallocated amount was refused for
\* exceeding what the invoice still needs, after an earlier one was created
C17_Witness ==
    /\ last.op = "create_manual_allocation"
    /\ last.result = "ValueError: exceeds outstanding"
    /\ \E k \in 1..Len(allocations) : allocations[k].invoice_id = last.invoice_id

\* C16: when two distinct payments are allocated concurrently against the
\* same invoice (by FIFO or by manual allocation), the allocations of every
\* invoice still sum to at most the invoice amount, under every interleaving.
C16_ConcurrentAllocationsWithinInvoice ==
    (\A v, w \in Workers : v # w /\ pc[v] # "idle" /\ pc[w] # "idle"
                               => loc[v].payment_id # loc[w].payment_id) =>
        \A invoice_id \in 1..Len(invoices) :
            SumAmounts(payment_allocations(allocations, invoice_id))
                <= invoices[invoice_id].amount

(***************************************************************************)
(* Properties of bank reconciliation                                       *)
(***************************************************************************)
\* equal amount, same date, identical reference number
EqualPair(transaction, payment) ==
    /\ transaction_amount(transaction) = payment.amount
    /\ transaction.transaction_date = payment.created_at.date
    /\ transaction.reference_number # <<>>
    /\ transaction.reference_number = payment.reference_number

\* the transactions auto_reconcile_statement goes through, the payments of
\* its pool, and the payments the transactions before transaction_id took
Processed == Elements(UnmatchedFrom(transactions, 1))

Pool == Elements(get_unreconciled_payments(transactions, payments))

TakenBefore(transaction_id) ==
    {transactions'[u].matched_payment_id : u \in {v \in Processed : v < transaction_id}}

\* C18 as stated: a bank transaction and a payment with equal amount, the
\* same date and the identical reference number get match score 1.0, and
\* auto_reconcile_statement marks that transaction AUTO_MATCHED to that
\* payment (taken for an unmatched credit transaction and a pooled payment).
C18_EqualPairScoresOne ==
    [][last'.op = "auto_reconcile_statement" =>
          \A transaction_id \in Processed, payment_id \in Pool :
              EqualPair(transactions[transaction_id], payments[payment_id]) =>
                  /\ calculate_match_score(transactions[transaction_id],
                                           payments[payment_id]) = 1000
                  /\ transactions'[transaction_id].reconciliation_status = "auto_matched"
                  /\ transactions'[transaction_id].matched_payment_id = payment_id]_vars

\* C18 amended: such a pair gets match score 0.9 plus the description share
\* (0.8999999999999999 to 0.9999999999999999 as computed, never 1.0), above
\* the threshold; and auto_reconcile_statement marks the transaction
\* AUTO_MATCHED to the payment when the transaction is an unmatched credit
\* transaction, the payment is in the pool, no other payment of the pool
\* scores as high for the transaction and no other transaction of the run
\* takes the payment.
C18_EqualPairScoresNineTenths ==
    [][last'.op = "auto_reconcile_statement" =>
          \A transaction_id \in 1..Len(transactions), payment_id \in 1..Len(payments) :
              EqualPair(transactions[transaction_id], payments[payment_id]) =>
                  LET score == calculate_match_score(transactions[transaction_id],
                                                     payments[payment_id])
                  IN /\ score >= 899
                     /\ score < 1000
                     /\ (/\ transaction_id \in Processed
                         /\ payment_id \in Pool
                         /\ \A q \in Pool \ {payment_id} :
                               calculate_match_score(transactions[transaction_id],
                                                     payments[q]) < score
                         /\ \A u \in 1..Len(transactions) \ {transaction_id} :
                               transactions'[u].matched_payment_id # payment_id)
                        => /\ transactions'[transaction_id].reconciliation_status
                                 = "auto_matched"
                           /\ transactions'[transaction_id].matched_payment_id
                                 = payment_id]_vars

C18_Witness ==
    /\ last.op = "auto_reconcile_statement"
    /\ \E transaction_id \in 1..Len(transactions) :
          /\ transactions[transaction_id].reconciliation_status = "auto_matched"
          /\ transactions[transaction_id].matched_payment_id \in 1..Len(payments)
          /\ EqualPair(transactions[transaction_id],
                       payments[transactions[transaction_id].matched_payment_id])
          /\ transactions[transaction_id].match_confidence = 90

\* the score of the weights added as decimals
weighted_score(transaction, payment) == match_score(transaction, payment, TRUE)

\* C19: auto_reconcile_statement goes through the statement's unmatched credit
\* transactions one by one and matches each to the payment with the highest
\* score among the payments still in the pool, and only if that score is at
\* least 0.8; a transaction whose best available score is below 0.8 stays
\* UNMATCHED, and a pair whose dates differ by more than 3 days is never
\* auto-matched.  Other transactions are left alone.
C19_GreedyBestAboveThreshold ==
    [][last'.op = "auto_reconcile_statement" =>
          \A transaction_id \in 1..Len(transactions) :
              LET transaction == transactions[transaction_id]
                  matched == transactions'[transaction_id].matched_payment_id
                  available == Pool \ TakenBefore(transaction_id)
              IN IF transaction_id \notin Processed
                 THEN transactions'[transaction_id] = transaction
                 ELSE IF matched # 0
                 THEN /\ matched \in available
                      /\ transactions'[transaction_id].reconciliation_status = "auto_matched"
                      /\ weighted_score(transaction, payments[matched]) >= 800
                      /\ \A q \in available :
                            weighted_score(transaction, payments[q])
                               <= weighted_score(transaction, payments[matched])
                      /\ date_diff(transaction, payments[matched]) <= 3
                 ELSE /\ transactions'[transaction_id].reconciliation_status = "unmatched"
                      /\ \A q \in available :
                            weighted_score(transaction, payments[q]) < 800]_vars

MatchedStatuses == {"auto_matched", "manual_matched"}

\* C21: unmatch_transaction on a matched transaction clears its matched
\* payment and confidence, resets its status to UNMATCHED and records the
\* reason; the payment it was matched to is then matched to no transaction
\* and is available again: manual_reconcile does not find it matched
\* elsewhere, and auto_reconcile_statement has it in its pool when it was
\* created within the statement's window.
C21_UnmatchReleasesPayment ==
    [][(/\ last'.op = "unmatch_transaction"
        /\ transactions[last'.transaction_id].reconciliation_status \in MatchedStatuses) =>
          LET transaction_id == last'.transaction_id
              payment_id == transactions[transaction_id].matched_payment_id
              in_window == get_unreconciled_payments(<<>>, <<payments[payment_id]>>) # <<>>
          IN /\ last'.result = "ok"
             /\ transactions'[transaction_id].matched_payment_id = 0
             /\ transactions'[transaction_id].match_confidence = "None"
             /\ transactions'[transaction_id].reconciliation_status = "unmatched"
             /\ transactions'[transaction_id].review_notes = "Unmatched: wrong payment"
             /\ \A k \in 1..Len(transactions) \ {transaction_id} :
                   transactions'[k] = transactions[k]
             /\ \A k \in 1..Len(transactions) :
                   transactions'[k].matched_payment_id # payment_id
             /\ \A k \in 1..Len(transactions) :
                   "already matched" \notin validate_manual_match(transactions', payments,
                                                                  k, payment_id)
             /\ in_window => payment_id \in Elements(get_unreconciled_payments(transactions',
                                                                               payments))]_vars

C21_Witness ==
    /\ last.op = "unmatch_transaction"
    /\ last.payment_id # 0
    /\ transactions[last.transaction_id].reconciliation_status = "unmatched"
    /\ last.payment_id \in Elements(get_unreconciled_payments(transactions, payments))

\* C29: in every reachable state each payment is the matched payment of at
\* most one bank transaction, and a transaction has a matched payment
\* exactly when its status is AUTO_MATCHED or MANUAL_MATCHED.
C29_OnePaymentOneTransaction ==
    /\ \A j, k \in 1..Len(transactions) :
          (j # k /\ transactions[j].matched_payment_id # 0)
             => transactions[j].matched_payment_id # transactions[k].matched_payment_id
    /\ \A k \in 1..Len(transactions) :
          (transactions[k].matched_payment_id # 0)
             <=> (transactions[k].reconciliation_status \in MatchedStatuses)

\* two credit transactions that both qualify for the one payment
C29_Witness ==
    /\ last.op = "auto_reconcile_statement"
    /\ Len(transactions) > 1
    /\ \E j, k \in 1..Len(transactions) :
          /\ j # k
          /\ transactions[j].matched_payment_id # 0
          /\ transactions[k].matched_payment_id = 0
          /\ calculate_match_score(transactions[k],
                                   payments[transactions[j].matched_payment_id]) >= 800
          /\ transactions[k].credit_amount > 0

(***************************************************************************)
(* Properties of payment approval and of the payment journal               *)
(***************************************************************************)
\* the payment of the call was waiting for approval when the call began
CalledOnPending ==
    /\ last'.payment_id \in 1..Len(payments)
    /\ payments[last'.payment_id].status = "PENDING"

\* C22: approve_payment on a PENDING payment commits the approval, status
\* CONFIRMED and the approver recorded, and returns the payment with status
\* CONFIRMED without an error, whatever became of the journal entry;
\* approve_payment and reject_payment on a payment that is not PENDING fail
\* with an error and change nothing.
C22_ApproveReturnsConfirmed ==
    [][/\ (last'.op = "approve_payment" /\ CalledOnPending) =>
              /\ last'.result = "ok"
              /\ payments'[last'.payment_id].approved_by_id = last'.user_id
              /\ last'.status = "CONFIRMED"
       /\ (last'.op \in {"approve_payment", "reject_payment"} /\ ~CalledOnPending) =>
              /\ last'.result \in {"ValueError: not found",
                                   "ValueError: not in pending status"}
              /\ UNCHANGED <<ledger, subledgers>>]_vars

\* C23: approving a PENDING payment creates exactly one journal entry, debit
\* bank and credit revenue for the payment amount, with its bridge record;
\* rejecting a PENDING payment sets it CANCELLED and creates no journal entry.
C23_ApprovalCreatesOneEntry ==
    [][/\ (last'.op = "approve_payment" /\ CalledOnPending) =>
              /\ Len(entries') = Len(entries) + 1
              /\ entries'[Len(entries')].lines
                     = PaymentLines(payments[last'.payment_id].amount)
              /\ payment_journal_entries'
                     = Append(payment_journal_entries,
                              <<last'.payment_id, Len(entries')>>)
       /\ (last'.op = "reject_payment" /\ CalledOnPending) =>
              /\ payments'[last'.payment_id].status = "CANCELLED"
              /\ UNCHANGED ledger]_vars

\* the journal entries that refer to the payment
EntriesOfPayment(payment_id) ==
    {i \in 1..Len(entries) : /\ "reference_id" \in DOMAIN entries[i]
                             /\ entries[i].reference_id = payment_id}

\* C24: create_journal_entry_for_payment for a payment that has a journal
\* entry fails and changes no entry, line, bridge record or ledger total;
\* and in every state, after interleaved calls for one payment too, a payment
\* is linked to at most one journal entry and every journal entry that refers
\* to a payment has its bridge record.
C24_OneJournalEntryPerPayment ==
    [][/\ (/\ NoneBegun'
           /\ last'.op = "create_journal_entry_for_payment"
           /\ existing_bridge(payment_journal_entries, last'.payment_id) # <<>>) =>
              /\ last'.result = "ValueError: Journal entry already exists for this payment"
              /\ UNCHANGED ledger
       /\ \A payment_id \in 1..Len(payments') :
              /\ Len(existing_bridge(payment_journal_entries', payment_id)) <= 1
              /\ Cardinality(EntriesOfPayment(payment_id)') <= 1
              /\ \A i \in EntriesOfPayment(payment_id)' :
                     existing_bridge(payment_journal_entries', payment_id)
                         = <<(<<payment_id, i>>)>>]_vars

\* C25: after allocate_payment_fifo returns, the payment is FULLY_ALLOCATED
\* if the amount left over is at most the rounding tolerance,
\* PARTIALLY_ALLOCATED if some but not all of it was allocated, and CONFIRMED
\* if nothing was allocated because the property had no pending invoice.
C25_FifoPaymentStatus ==
    [][(last'.op = "allocate_payment_fifo" /\ last'.result = "ok") =>
          LET payment_id == last'.payment_id
              allocated == SumAmounts(invoice_allocations(allocations', payment_id))
              left_over == payments'[payment_id].amount - allocated
          IN payments'[payment_id].status
                 = IF left_over <= Tolerance THEN "FULLY_ALLOCATED"
                   ELSE IF allocated > 0 THEN "PARTIALLY_ALLOCATED"
                   ELSE "CONFIRMED"]_vars

\* the calls that allocate
AllocatingOps ==
    {"create_payment", "allocate_payment_fifo", "create_manual_allocation",
     "process_bulk_fifo_allocation"}

\* what is left of the invoice to pay, by the allocation rows
RemainingOf(invs, allocs, invoice_id) ==
    invs[invoice_id].amount - SumAmounts(payment_allocations(allocs, invoice_id))

\* C26: when an allocation, FIFO or manual, brings what is left of an invoice
\* down to the rounding tolerance or less, the invoice is PAID when the call
\* returns; and an invoice that is PAID is not pending, so a FIFO allocation
\* creates no allocation for it.
C26_SettledInvoiceIsPaid ==
    [][(last'.op \in AllocatingOps /\ last'.result = "ok") =>
          \A k \in 1..Len(last'.created) :
              LET invoice_id == last'.created[k].invoice_id
              IN /\ RemainingOf(invoices', allocations', invoice_id) <= Tolerance
                        => invoices'[invoice_id].status = "paid"
                 /\ last'.op # "create_manual_allocation"
                        => invoices[invoice_id].status # "paid"]_vars

\* C27: no allocation with a zero or negative amount is ever created:
\* allocate_payment_fifo creates allocations with amount > 0 only, and
\* create_manual_allocation with an amount <= 0 creates none.
C27_AllocationsArePositive ==
    \A k \in 1..Len(allocations) : allocations[k].amount > 0

\* C28: no allocation is created against an invoice that is not PENDING:
\* create_manual_allocation against a PAID, OVERDUE or CANCELED invoice fails
\* and creates nothing, and allocate_payment_fifo allocates only to invoices
\* that are PENDING when it is called.
C28_AllocationsOnPendingInvoices ==
    [][last'.op \in AllocatingOps =>
          /\ \A k \in 1..Len(last'.created) :
                 invoices[last'.created[k].invoice_id].status = "pending"
          /\ (/\ last'.op = "create_manual_allocation"
              /\ invoices[last'.invoice_id].status # "pending") =>
                 /\ last'.result # "ok"
                 /\ UNCHANGED <<invoices, payments, allocations>>]_vars

(***************************************************************************)
(* Properties of the ledger totals                                         *)
(***************************************************************************)
\* the general-ledger rows of a period
RowsOf(g, period_id) == {k \in DOMAIN g : k[2] = period_id}

\* the POSTED journal entries of a period
PostedOf(ents, period_id) ==
    {i \in 1..Len(ents) : ents[i].status = "POSTED" /\ ents[i].period_id = period_id}

\* the periods that have a row or an entry
LedgerPeriods(ents, g) == {k[2] : k \in DOMAIN g} \cup {ents[i].period_id : i \in 1..Len(ents)}

\* C30: in every state and for every accounting period the sum of
\* debit_total over the general-ledger rows of the period equals the sum of
\* their credit_total and equals the sum of total_debit over the POSTED
\* journal entries of the period; and no general-ledger total ever decreases.
C30_LedgerTotalsMatchPostedEntries ==
    [][/\ \A period_id \in LedgerPeriods(entries', gl') :
              LET rows == RowsOf(gl', period_id)
                  debits == SumOver(rows, [k \in rows |-> gl'[k].debit_total])
                  credits == SumOver(rows, [k \in rows |-> gl'[k].credit_total])
                  posted == PostedOf(entries', period_id)
              IN /\ debits = credits
                 /\ debits = SumOver(posted, [i \in posted |-> entries'[i].total_debit])
       /\ \A k \in DOMAIN gl :
              /\ k \in DOMAIN gl'
              /\ gl'[k].debit_total >= gl[k].debit_total
              /\ gl'[k].credit_total >= gl[k].credit_total]_vars
====
